---- MODULE Spec2Model ----
(***************************************************************************)
(* act.js: the application container returned by createApp(container).     *)
(* The closure variables of createApp are the state; every public method   *)
(* is an operator from state record to state record, and every action of   *)
(* the state machine commits the record one call produces.  The host (the  *)
(* event loop with its microtask queue, the timer table, the listener      *)
(* table of the DOM) is modelled next to it.                               *)
(***************************************************************************)
EXTENDS Integers, Sequences, FiniteSets, TLC

\* ------------------------------------------------------------------ bounds
MaxVal == 1        \* state values are 0..MaxVal
MaxScopes == 2     \* scope instances ever created by createScope
MaxTimers == 2     \* timer ids ever handed out by the host
MaxCalls == 2      \* setState calls counted within one synchronous block
DiffLen == 2       \* child nodes of the two parents handed to reconcileChildren
MaxCount == 3      \* the counter is driven within -MaxCount..MaxCount
MaxTodos == 2      \* todo items ever added

\* ------------------------------------------------------------------ inputs
Keys == {"k1", "k2"}
Vals == 0..MaxVal
Undefined == -1                      \* what obj[key] yields for a missing key
Null == "null"                       \* renderFn before mount and after destroy
NotFound == 0                        \* getScope's null; scope objects are 1, 2, ...

\* Names are strings, modelled as sequences of characters so that the
\* template literal `${name}:${handlerName}` is a real concatenation.
ScopeNames == {<<"a">>, <<"a", ":", "b">>}
HandlerNames == {<<"x">>, <<"b", ":", "x">>}
GlobalHandlerNames == {<<"g">>, <<"a", ":", "x">>}
Fns == {"F1", "F2"}                  \* callbacks handed to on()

\* Render functions handed to mount(); see RenderThrows / RenderTree.
RenderFns == {"global", "scoped", "writer", "badAttr"}

\* ------------------------------------------------------- plain JS objects
\* An object is a function whose domain is the set of its own keys.
EmptyObj == [x \in {} |-> Undefined]
Put(obj, k, v) == [x \in (DOMAIN obj) \cup {k} |-> IF x = k THEN v ELSE obj[x]]
Del(obj, k) == [x \in (DOMAIN obj) \ {k} |-> obj[x]]
Get(obj, k) == IF k \in DOMAIN obj THEN obj[k] ELSE Undefined

Range(seq) == {seq[i] : i \in 1..Len(seq)}

\* String.prototype.startsWith on character sequences.
StartsWith(str, prefix) ==
  /\ Len(prefix) <= Len(str)
  /\ SubSeq(str, 1, Len(prefix)) = prefix

\* `${name}:${handlerName}`
Qualified(name, handlerName) == name \o <<":">> \o handlerName

VARIABLES
  \* closure variables of createApp
  globalState, scopes, renderFn, mounted, activeListeners, intervals,
  timeouts, rerenderScheduled, handlers,
  \* scope objects ever created (a caller may retain any of them)
  scopeObjs,
  \* host environment
  container, attached, microQueue, running, hostTimers, nextTimerId,
  \* observation of the run
  lastOp, lastCycle, dirty, calls, cpRenders, everMounted, destroyed,
  destroyMark, desired, teardown, lastCall, owner, timerLog, tally, trace,
  \* the element of the document that has the focus
  focus,
  \* closure variable of TimerComponent
  intervalId,
  \* the reconciler of diff.js: the child nodes of the live parent, the child
  \* nodes of the desired parent, and whether reconcileChildren has run
  oldEl, newEl, diffPc,
  \* the closure state of a second container made by another createApp call
  other

\* The variables of the reconciler, which no container method reads or writes.
diffVars == <<oldEl, newEl, diffPc>>

\* The variables of one application container and its host.
appVars == <<globalState, scopes, renderFn, mounted, activeListeners,
             intervals, timeouts, rerenderScheduled, handlers, scopeObjs,
             container, attached, microQueue, running, hostTimers,
             nextTimerId, lastOp, lastCycle, dirty, calls, cpRenders,
             everMounted, destroyed, destroyMark, desired, teardown, lastCall,
             owner, timerLog, tally, trace, focus, intervalId, other>>

vars == <<globalState, scopes, renderFn, mounted, activeListeners, intervals,
          timeouts, rerenderScheduled, handlers, scopeObjs, container,
          attached, microQueue, running, hostTimers, nextTimerId, lastOp,
          lastCycle, dirty, calls, cpRenders, everMounted, destroyed,
          destroyMark, desired, teardown, lastCall, owner, timerLog, tally,
          trace, focus, intervalId, oldEl, newEl, diffPc, other>>

\* The current state as one record: the argument of every method below.
St ==
  [globalState |-> globalState, scopes |-> scopes, renderFn |-> renderFn,
   mounted |-> mounted, activeListeners |-> activeListeners,
   intervals |-> intervals, timeouts |-> timeouts,
   rerenderScheduled |-> rerenderScheduled, handlers |-> handlers,
   scopeObjs |-> scopeObjs, container |-> container, attached |-> attached,
   microQueue |-> microQueue, running |-> running, hostTimers |-> hostTimers,
   nextTimerId |-> nextTimerId, lastOp |-> lastOp, lastCycle |-> lastCycle,
   dirty |-> dirty, calls |-> calls, cpRenders |-> cpRenders,
   everMounted |-> everMounted, destroyed |-> destroyed,
   destroyMark |-> destroyMark, desired |-> desired, teardown |-> teardown,
   lastCall |-> lastCall, owner |-> owner, timerLog |-> timerLog,
   tally |-> tally, trace |-> trace, focus |-> focus,
   intervalId |-> intervalId]

\* The state a call leaves behind.
Commit(s) ==
  /\ globalState' = s.globalState
  /\ scopes' = s.scopes
  /\ renderFn' = s.renderFn
  /\ mounted' = s.mounted
  /\ activeListeners' = s.activeListeners
  /\ intervals' = s.intervals
  /\ timeouts' = s.timeouts
  /\ rerenderScheduled' = s.rerenderScheduled
  /\ handlers' = s.handlers
  /\ scopeObjs' = s.scopeObjs
  /\ container' = s.container
  /\ attached' = s.attached
  /\ microQueue' = s.microQueue
  /\ running' = s.running
  /\ hostTimers' = s.hostTimers
  /\ nextTimerId' = s.nextTimerId
  /\ lastOp' = s.lastOp
  /\ lastCycle' = s.lastCycle
  /\ dirty' = s.dirty
  /\ calls' = s.calls
  /\ cpRenders' = s.cpRenders
  /\ everMounted' = s.everMounted
  /\ destroyed' = s.destroyed
  /\ destroyMark' = s.destroyMark
  /\ desired' = s.desired
  /\ teardown' = s.teardown
  /\ lastCall' = s.lastCall
  /\ owner' = s.owner
  /\ timerLog' = s.timerLog
  /\ tally' = s.tally
  /\ trace' = s.trace
  /\ focus' = s.focus
  /\ intervalId' = s.intervalId
  /\ UNCHANGED diffVars
  /\ other' = [other EXCEPT !.lastOp = "none"]

\* `let intervalId = null` of TimerComponent: no interval held.  Timer ids
\* start at 1.
NoInterval == 0

\* ------------------------------------------------------------------ focus
\* document.activeElement: the element that has the focus, its data-id ("" for
\* none) and its selectionStart.  selectionStart is a number on a text input,
\* null on an input whose type has no selection, and undefined on any other
\* element; an input the program focuses without setting a selection has the
\* cursor where the browser puts it.
NullCursor == -2
BrowserCursor == -3
NoFocus == [el |-> <<>>, dataId |-> "", cursor |-> Undefined]

\* An element of the document outside the mount container.
Outside == <<3, 1>>

\* The data-id of an element of a rendered tree, and its kind: "text" for a
\* text input, "check" for an input whose type has no selection, "none" for an
\* element that is no input.
DataIdOf(e) == IF "dataId" \in DOMAIN e THEN e.dataId ELSE ""
SelOf(e) == IF "sel" \in DOMAIN e THEN e.sel ELSE "none"

\* What a destroy() call found when it was called; NoTeardown after any
\* other call.
NoTeardown ==
  [mounted |-> FALSE, content |-> FALSE, names |-> {}, timers |-> EmptyObj,
   listeners |-> {}, keys |-> {}, handlers |-> {}, destroyed |-> FALSE]

\* The call a step made, where the step records it: the method, the scope
\* or handler name and the key it was given, the scope object it went
\* through or returned, and whether it found what it names. NoCall after
\* any step that records nothing.
NoCall == [op |-> "none", name |-> <<>>, key |-> "", ref |-> 0, hit |-> FALSE]

\* The owner of a handler-registry entry stored through app.on().
App == 0

\* createApp(container): the closure state right after construction.
InitApp ==
  /\ globalState = EmptyObj
  /\ scopes = EmptyObj
  /\ renderFn = Null
  /\ mounted = FALSE
  /\ activeListeners = <<>>
  /\ intervals = {}
  /\ timeouts = {}
  /\ rerenderScheduled = FALSE
  /\ handlers = EmptyObj
  /\ scopeObjs = <<>>
  /\ container = <<>>
  /\ attached = {}
  /\ microQueue = <<>>
  /\ running = FALSE
  /\ hostTimers = EmptyObj
  /\ nextTimerId = 1
  /\ lastOp = "none"
  /\ lastCycle = "none"
  /\ dirty = FALSE
  /\ calls = 0
  /\ cpRenders = 0
  /\ everMounted = FALSE
  /\ destroyed = FALSE
  /\ destroyMark = 1
  /\ desired = <<>>
  /\ teardown = NoTeardown
  /\ lastCall = NoCall
  /\ owner = EmptyObj
  /\ timerLog = EmptyObj
  /\ tally = 0
  /\ trace = <<>>
  /\ focus = NoFocus
  /\ intervalId = NoInterval

\* No reconciliation is under way: act.js does not import diff.js.
DiffIdle == oldEl = <<>> /\ newEl = <<>> /\ diffPc = "idle"

\* The state record of a container right after createApp.
NewApp ==
  [globalState |-> EmptyObj, scopes |-> EmptyObj, renderFn |-> Null,
   mounted |-> FALSE, activeListeners |-> <<>>, intervals |-> {},
   timeouts |-> {}, rerenderScheduled |-> FALSE, handlers |-> EmptyObj,
   scopeObjs |-> <<>>, container |-> <<>>, attached |-> {},
   microQueue |-> <<>>, running |-> FALSE, hostTimers |-> EmptyObj,
   nextTimerId |-> 1, lastOp |-> "none", lastCycle |-> "none",
   dirty |-> FALSE, calls |-> 0, cpRenders |-> 0, everMounted |-> FALSE,
   destroyed |-> FALSE, destroyMark |-> 1, desired |-> <<>>,
   teardown |-> NoTeardown, lastCall |-> NoCall, owner |-> EmptyObj,
   timerLog |-> EmptyObj, tally |-> 0, trace |-> <<>>,
   focus |-> NoFocus, intervalId |-> NoInterval]

Init == InitApp /\ DiffIdle /\ other = NewApp

\* ------------------------------------------------------------ scheduler
\* Who queued a deferred render: code of the running synchronous block, or
\* a callback run at the microtask checkpoint.
Origin(s) == IF s.running THEN "block" ELSE "checkpoint"

\* scheduleRerender without its pending check: every request queues a render.
scheduleEveryRequest(s) ==
  [s EXCEPT !.rerenderScheduled = TRUE, !.microQueue = Append(@, Origin(s))]

\* scheduleRerender that queues the render but never raises the flag.
scheduleWithoutFlag(s) ==
  IF ~s.rerenderScheduled
  THEN [s EXCEPT !.microQueue = Append(@, Origin(s))]
  ELSE s

\* scheduleRerender(): queue one deferred render unless one is pending.
scheduleRerender(s) ==
  IF ~s.rerenderScheduled
  THEN [s EXCEPT !.rerenderScheduled = TRUE,
                 !.microQueue = Append(@, Origin(s))]
  ELSE s

\* The steps of the render cycle in progress, in the order they are taken;
\* a step outside a render cycle is not recorded.
InCycle(tr, step) == IF tr # <<>> THEN Append(tr, step) ELSE tr

\* ---------------------------------------------------------- global state
\* setState without the mounted check: it requests a render in any state.
setStateUnguarded(s, key, value) ==
  scheduleRerender([s EXCEPT !.globalState = Put(@, key, value),
                             !.dirty = TRUE,
                             !.calls = IF s.mounted /\ s.running THEN @ + 1 ELSE @])

\* app.setState(key, value)
setState(s, key, value) ==
  LET s1 == [s EXCEPT !.globalState = Put(@, key, value),
                      !.dirty = TRUE,
                      !.trace = InCycle(@, "mutate"),
                      !.calls = IF s.mounted /\ s.running THEN @ + 1 ELSE @]
  IN IF s1.mounted THEN scheduleRerender(s1) ELSE s1

\* app.getState(key)
getState(s, key) == Get(s.globalState, key)

\* app.deleteState(key) that asks for a render as setState does.
deleteStateSchedules(s, key) ==
  LET s1 == [s EXCEPT !.globalState = Del(@, key)]
  IN IF s1.mounted THEN scheduleRerender(s1) ELSE s1

\* app.deleteState(key)
deleteState(s, key) == [s EXCEPT !.globalState = Del(@, key)]

\* app.createScope(name) without the check for an existing scope: a fresh
\* scope object is registered under the name every time.
createScopeReplaces(s, name) ==
  [s EXCEPT !.scopeObjs = Append(@, [name |-> name, localState |-> EmptyObj]),
            !.scopes = Put(@, name, Len(s.scopeObjs) + 1)]

\* ---------------------------------------------------------------- scopes
\* app.createScope(name): the existing scope, or a fresh one registered.
createScope(s, name) ==
  IF name \in DOMAIN s.scopes
  THEN s
  ELSE [s EXCEPT !.scopeObjs = Append(@, [name |-> name, localState |-> EmptyObj]),
                 !.scopes = Put(@, name, Len(s.scopeObjs) + 1)]

\* app.getScope(name): the registered scope object (its index), or NotFound
\* for the null the code returns.
getScope(s, name) == IF name \in DOMAIN s.scopes THEN s.scopes[name] ELSE NotFound

\* scope.setState(key, value) of a scope that keeps its state in the global
\* mapping instead of a mapping of its own.
scopeSetStateShared(s, i, key, value) ==
  LET s1 == [s EXCEPT !.globalState = Put(@, key, value),
                      !.dirty = TRUE,
                      !.calls = IF s.mounted /\ s.running THEN @ + 1 ELSE @]
  IN IF s1.mounted THEN scheduleRerender(s1) ELSE s1

\* scope.setState(key, value) through the scope object i.
scopeSetState(s, i, key, value) ==
  LET s1 == [s EXCEPT !.scopeObjs[i].localState = Put(@, key, value),
                      !.dirty = TRUE,
                      !.trace = InCycle(@, "mutate"),
                      !.calls = IF s.mounted /\ s.running THEN @ + 1 ELSE @]
  IN IF s1.mounted THEN scheduleRerender(s1) ELSE s1

\* scope.getState(key)
scopeGetState(s, i, key) == Get(s.scopeObjs[i].localState, key)

\* scope.getGlobal(key)
scopeGetGlobal(s, i, key) == Get(s.globalState, key)

\* scope.deleteState(key)
scopeDeleteState(s, i, key) == [s EXCEPT !.scopeObjs[i].localState = Del(@, key)]

\* scope.on(handlerName, fn)
scopeOn(s, i, handlerName, fn) ==
  [s EXCEPT !.handlers = Put(@, Qualified(s.scopeObjs[i].name, handlerName), fn),
            !.owner = Put(@, Qualified(s.scopeObjs[i].name, handlerName), i)]

\* scope.off(handlerName)
scopeOff(s, i, handlerName) ==
  [s EXCEPT !.handlers = Del(@, Qualified(s.scopeObjs[i].name, handlerName)),
            !.owner = Del(@, Qualified(s.scopeObjs[i].name, handlerName))]

\* scope.destroy() that removes the handlers this scope object stored instead
\* of every key under its prefix.
scopeDestroyOwnHandlersOnly(s, i) ==
  LET name == s.scopeObjs[i].name
      kept == {key \in DOMAIN s.handlers : s.owner[key] # i}
  IN [s EXCEPT !.handlers = [key \in kept |-> s.handlers[key]],
               !.owner = [key \in kept |-> s.owner[key]],
               !.scopeObjs[i].localState = EmptyObj,
               !.scopes = Del(@, name)]

\* scope.destroy() that leaves the scope in the registry.
scopeDestroyStaysRegistered(s, i) ==
  LET name == s.scopeObjs[i].name
      kept == {key \in DOMAIN s.handlers : ~StartsWith(key, name \o <<":">>)}
  IN [s EXCEPT !.handlers = [key \in kept |-> s.handlers[key]],
               !.owner = [key \in kept |-> s.owner[key]],
               !.scopeObjs[i].localState = EmptyObj]

\* scope.destroy()
scopeDestroy(s, i) ==
  LET name == s.scopeObjs[i].name
      kept == {key \in DOMAIN s.handlers : ~StartsWith(key, name \o <<":">>)}
  IN [s EXCEPT !.handlers = [key \in kept |-> s.handlers[key]],
               !.owner = [key \in kept |-> s.owner[key]],
               !.scopeObjs[i].localState = EmptyObj,
               !.scopes = Del(@, name)]

\* app.on(name, fn) / app.off(name)
on(s, name, fn) ==
  [s EXCEPT !.handlers = Put(@, name, fn), !.owner = Put(@, name, App)]
\* off(name) that also detaches the listeners bound to the callback it
\* unregisters.
offDetaches(s, name) ==
  LET gone == {l \in s.attached :
                 name \in DOMAIN s.handlers /\ l.handler = s.handlers[name]}
  IN [s EXCEPT !.handlers = Del(@, name), !.owner = Del(@, name),
               !.attached = @ \ gone]

off(s, name) == [s EXCEPT !.handlers = Del(@, name), !.owner = Del(@, name)]

\* ---------------------------------------------------------------- timers
\* The host hands out increasing ids from one pool for both kinds, and either
\* clear function cancels the timer of the id it is given.
safeSetInterval(s) ==
  LET id == s.nextTimerId
  IN [s EXCEPT !.hostTimers = Put(@, id, "interval"),
               !.nextTimerId = id + 1,
               !.intervals = @ \cup {id},
               !.timerLog = Put(@, id, [kind |-> "interval", gone |-> "no"])]

\* What the record of the timers made so far becomes when the timer id of
\* the given kind ends: "cleared" through the helper of its kind, "fired" as
\* a one-shot timeout.
Gone(log, id, kind, how) ==
  [j \in DOMAIN log |->
     IF j = id /\ log[j].kind = kind /\ log[j].gone = "no"
     THEN [log[j] EXCEPT !.gone = how]
     ELSE log[j]]

safeClearInterval(s, id) ==
  [s EXCEPT !.hostTimers = Del(@, id), !.intervals = @ \ {id},
            !.timerLog = Gone(@, id, "interval", "cleared")]

safeSetTimeout(s) ==
  LET id == s.nextTimerId
  IN [s EXCEPT !.hostTimers = Put(@, id, "timeout"),
               !.nextTimerId = id + 1,
               !.timeouts = @ \cup {id},
               !.timerLog = Put(@, id, [kind |-> "timeout", gone |-> "no"])]

safeClearTimeout(s, id) ==
  [s EXCEPT !.hostTimers = Del(@, id), !.timeouts = @ \ {id},
            !.timerLog = Gone(@, id, "timeout", "cleared")]

\* The wrapper of safeSetTimeout without its first statement: the id stays
\* in the tracking set when the timeout fires.
timeoutFiredKeepsId(s, id) ==
  [s EXCEPT !.timerLog = Gone(@, id, "timeout", "fired")]

\* The wrapper safeSetTimeout hands to the host, up to its call of fn: the
\* id leaves the tracking set.
timeoutFired(s, id) ==
  [s EXCEPT !.timeouts = @ \ {id},
            !.timerLog = Gone(@, id, "timeout", "fired")]

\* ------------------------------------------------------------- rendering
\* The data-on attribute of an element: absent, a JSON event map (its
\* entries in Object.entries order), or text JSON.parse rejects.
NoOn == [kind |-> "none", map |-> <<>>]
OnMap(entries) == [kind |-> "map", map |-> entries]
BadOn == [kind |-> "bad", map |-> <<>>]

\* The render functions handed to mount().  "global" reads the global state
\* it is passed; "scoped" reads scope "a" through app.getScope("a") and so throws
\* a TypeError when that scope is not registered; "writer" is "global" that
\* also calls app.setState("k1", 0); "badAttr" returns an element whose
\* data-on is not JSON.
RenderThrows(fn, s) == fn = "scoped" /\ getScope(s, <<"a">>) = NotFound

\* The two buttons the list renders for every item, in document order; the
\* text of a button stands for its data-todo-id attribute.
ItemButtons(items) ==
  [k \in 1..(2 * Len(items)) |->
     [text |-> <<items[(k + 1) \div 2].id>>,
      on |-> OnMap(<< <<"click",
                        Qualified(<<"todoList">>,
                                  IF k % 2 = 1 THEN <<"toggle">>
                                               ELSE <<"delete">>)>> >>)]]

RenderTree(fn, s) ==
  CASE fn \in {"global", "writer"} ->
         << [text |-> <<getState(s, "k1"), getState(s, "k2")>>,
             on |-> OnMap(<< <<"click", <<"g">> >> >>)],
            [text |-> <<>>,
             on |-> OnMap(<< <<"click", <<"a", ":", "x">> >>,
                             <<"input", <<"g">> >> >>)] >>
    [] fn = "scoped" ->
         << [text |-> <<scopeGetState(s, getScope(s, <<"a">>), "k1")>>,
             on |-> OnMap(<< <<"click", Qualified(<<"a">>, <<"x">>)>>,
                             <<"input", Qualified(<<"a", ":", "b">>, <<"x">>)>> >>)],
            [text |-> <<>>, on |-> NoOn] >>
    [] fn = "badAttr" ->
         << [text |-> <<>>, on |-> OnMap(<< <<"click", <<"g">> >> >>)],
            [text |-> <<>>, on |-> BadOn],
            [text |-> <<>>, on |-> OnMap(<< <<"input", <<"g">> >> >>)] >>
    [] fn = "todo" ->
         << [text |-> <<scopeGetState(s, getScope(s, <<"todoInput">>), "text")>>,
             on |-> OnMap(<< <<"input", Qualified(<<"todoInput">>, <<"input">>)>>,
                             <<"keydown", Qualified(<<"todoInput">>, <<"keydown">>)>> >>)],
            [text |-> <<>>,
             on |-> OnMap(<< <<"click", Qualified(<<"todoInput">>, <<"add">>)>> >>)] >>
           \o ItemButtons(scopeGetState(s, getScope(s, <<"todo">>), "items"))
    [] fn = "form" ->
         IF getState(s, "k1") = Undefined
         THEN << [text |-> <<>>, on |-> NoOn, dataId |-> "d1", sel |-> "text"],
                 [text |-> <<>>, on |-> NoOn, dataId |-> "d2", sel |-> "none"],
                 [text |-> <<>>, on |-> NoOn, dataId |-> "d3", sel |-> "check"] >>
         ELSE IF getState(s, "k1") = 0
         THEN << [text |-> <<>>, on |-> NoOn, dataId |-> "", sel |-> "text"],
                 [text |-> <<>>, on |-> NoOn, dataId |-> "d1", sel |-> "text"],
                 [text |-> <<>>, on |-> NoOn, dataId |-> "d1", sel |-> "none"] >>
         ELSE << [text |-> <<>>, on |-> NoOn, dataId |-> "d2", sel |-> "text"],
                 [text |-> <<>>, on |-> NoOn, dataId |-> "d3", sel |-> "check"] >>
    [] fn = "timer" ->
         LET scope == getScope(s, <<"timer">>)
         IN << [text |-> <<scopeGetState(s, scope, "seconds")>>, on |-> NoOn],
               [text |-> <<>>,
                on |-> OnMap(<< <<"click",
                                  Qualified(<<"timer">>,
                                            IF scopeGetState(s, scope, "running")
                                            THEN <<"stop">> ELSE <<"start">>)>> >>)],
               [text |-> <<>>,
                on |-> OnMap(<< <<"click", Qualified(<<"timer">>, <<"reset">>)>> >>)] >>
    [] fn = "counter" ->
         << [text |-> <<getState(s, "count")>>, on |-> NoOn],
            [text |-> <<>>, on |-> OnMap(<< <<"click", <<"decrement">> >> >>)],
            [text |-> <<>>, on |-> OnMap(<< <<"click", <<"count_reset">> >> >>)],
            [text |-> <<>>, on |-> OnMap(<< <<"click", <<"increment">> >> >>)] >>

\* Elements are created anew by every render: an element is named by the
\* generation of its render and its position in document order.  A generation
\* is taken again once no element of it is in the container or holds a listener.
GensInUse(s) ==
  {s.container[i].id[1] : i \in 1..Len(s.container)}
    \cup {l.el[1] : l \in s.attached}
    \cup {s.activeListeners[i].el[1] : i \in 1..Len(s.activeListeners)}

NewGen(s) ==
  LET free == (0..2) \ GensInUse(s)
  IN IF free = {} THEN 0 ELSE CHOOSE g \in free : \A h \in free : g <= h

\* cleanupListeners that empties the record list without detaching anything.
cleanupForgetsListeners(s) == [s EXCEPT !.activeListeners = <<>>]

\* cleanupListeners()
cleanupListeners(s) ==
  [s EXCEPT !.attached = @ \ Range(s.activeListeners),
            !.activeListeners = <<>>]

\* The loop over Object.entries(eventMap) of one element, from entry j on.
RECURSIVE bindEntries(_, _, _, _)
bindEntries(s, el, map, j) ==
  IF j > Len(map)
  THEN s
  ELSE LET event == map[j][1]
           handlerName == map[j][2]
           rec == [el |-> el, event |-> event,
                   handler |-> s.handlers[handlerName]]
           s1 == IF handlerName \in DOMAIN s.handlers
                 THEN [s EXCEPT !.attached = @ \cup {rec},
                                !.activeListeners = Append(@, rec),
                                !.trace = Append(@, "attach")]
                 ELSE s
       IN bindEntries(s1, el, map, j + 1)

\* The forEach over querySelectorAll("[data-on]"), from element i on.  A
\* data-on that JSON.parse rejects throws out of the loop.
RECURSIVE bindFrom(_, _)
bindFrom(s, i) ==
  IF i > Len(s.container)
  THEN s
  ELSE LET e == s.container[i]
       IN CASE e.on.kind = "none" -> bindFrom(s, i + 1)
            [] e.on.kind = "bad" -> [s EXCEPT !.lastCycle = "threwBind"]
            [] e.on.kind = "map" ->
                 bindFrom([bindEntries(s, e.id, e.on.map, 1)
                             EXCEPT !.container[i].on = NoOn], i + 1)

\* appendChild(content) without emptying the container first.
replaceContentAppends(s, content, g) ==
  [s EXCEPT !.container =
     @ \o [i \in 1..Len(content) |->
             [id |-> <<g, i>>, text |-> content[i].text, on |-> content[i].on,
              dataId |-> DataIdOf(content[i]), sel |-> SelOf(content[i])]]]

\* container.innerHTML = ""; container.appendChild(content): the elements of
\* generation g made from the tree the render function returned.
replaceContent(s, content, g) ==
  [s EXCEPT !.focus = IF @.el \in {s.container[i].id : i \in 1..Len(s.container)}
                      THEN NoFocus ELSE @,
            !.container =
     [i \in 1..Len(content) |->
        [id |-> <<g, i>>, text |-> content[i].text, on |-> content[i].on,
              dataId |-> DataIdOf(content[i]), sel |-> SelOf(content[i])]]]

\* bindEvents(container) that leaves data-on on an element none of whose
\* handlers is registered.
bindEventsKeepsUnbound(s) ==
  LET b == bindFrom(s, 1)
  IN [b EXCEPT !.container =
        [i \in 1..Len(b.container) |->
           IF /\ s.container[i].on.kind = "map"
              /\ \A j \in 1..Len(s.container[i].on.map) :
                   s.container[i].on.map[j][2] \notin DOMAIN s.handlers
           THEN s.container[i]
           ELSE b.container[i]]]

\* bindEvents(container) that throws on a binding whose handler is missing
\* instead of warning and going on.
bindEventsStrict(s) ==
  IF \E i \in 1..Len(s.container) :
       /\ s.container[i].on.kind = "map"
       /\ \E j \in 1..Len(s.container[i].on.map) :
            s.container[i].on.map[j][2] \notin DOMAIN s.handlers
  THEN [s EXCEPT !.lastCycle = "threwBind"]
  ELSE bindFrom(s, 1)

\* bindEvents(container)
bindEvents(s) == bindFrom(s, 1)

\* What the render function does besides returning its tree.
RenderEffects(fn, s) == IF fn = "writer" THEN setState(s, "k1", 0) ELSE s

\* The focus restoration of rerender that never sets a selection range.
restoreFocusWithoutCursor(s, activeId, cursorPos) ==
  LET hits == {i \in 1..Len(s.container) : s.container[i].dataId = activeId}
  IN IF activeId = "" \/ hits = {}
     THEN s
     ELSE LET e == s.container[CHOOSE i \in hits : \A j \in hits : i <= j]
          IN [s EXCEPT !.focus =
                [el |-> e.id, dataId |-> e.dataId,
                 cursor |-> CASE e.sel = "text" -> BrowserCursor
                              [] e.sel = "check" -> NullCursor
                              [] OTHER -> Undefined]]

\* The end of rerender: focus the first element of the new content that has
\* the data-id captured at the start, and put the cursor where it was.
\* setSelectionRange throws on an input whose type has no selection, and turns
\* a null position into 0.
restoreFocus(s, activeId, cursorPos) ==
  LET hits == {i \in 1..Len(s.container) : s.container[i].dataId = activeId}
  IN IF activeId = "" \/ hits = {}
     THEN s
     ELSE LET e == s.container[CHOOSE i \in hits : \A j \in hits : i <= j]
              focused == [el |-> e.id, dataId |-> e.dataId,
                          cursor |-> CASE e.sel = "text" -> BrowserCursor
                                       [] e.sel = "check" -> NullCursor
                                       [] OTHER -> Undefined]
          IN IF cursorPos = Undefined \/ e.sel = "none"
             THEN [s EXCEPT !.focus = focused]
             ELSE IF e.sel = "check"
             THEN [s EXCEPT !.focus = focused, !.lastCycle = "threwFocus"]
             ELSE [s EXCEPT !.focus =
                     [focused EXCEPT !.cursor = IF cursorPos = NullCursor
                                                THEN 0 ELSE cursorPos]]

\* rerender() that detaches the recorded listeners after binding the new
\* content instead of before calling the render function.
rerenderCleansLast(s) ==
  IF s.renderFn = Null
  THEN [s EXCEPT !.lastCycle = "skipped"]
  ELSE LET fn == s.renderFn
           s1 == [s EXCEPT !.dirty = FALSE]
           called == [s1 EXCEPT !.trace = Append(@, "render")]
       IN IF RenderThrows(fn, s1)
          THEN [called EXCEPT !.lastCycle = "threwRender"]
          ELSE LET content == RenderTree(fn, s1)
                   g == NewGen(s1)
                   s2 == RenderEffects(fn, called)
                   s3 == [replaceContent(s2, content, g) EXCEPT
                            !.desired = content,
                            !.trace = Append(@, "replace"),
                            !.lastCycle = "binding"]
                   s4 == bindEvents(s3)
               IN IF s4.lastCycle = "threwBind"
                  THEN s4
                  ELSE [cleanupListeners(s4)
                          EXCEPT !.trace = Append(@, "detach"),
                                 !.lastCycle = "done"]

\* rerender(): one render cycle.  lastCycle tells how it ended: "skipped" (no
\* render function), "threwRender", "threwBind" or "done".  dirty is lowered
\* when the render function is invoked with the state.
rerender(s) ==
  IF s.renderFn = Null
  THEN [s EXCEPT !.lastCycle = "skipped"]
  ELSE LET fn == s.renderFn
           s1 == [cleanupListeners(s) EXCEPT !.dirty = FALSE,
                                             !.trace = Append(@, "detach")]
           called == [s1 EXCEPT !.trace = Append(@, "render")]
       IN IF RenderThrows(fn, s1)
          THEN [called EXCEPT !.lastCycle = "threwRender"]
          ELSE LET content == RenderTree(fn, s1)
                   g == NewGen(s1)
                   s2 == RenderEffects(fn, called)
                   s3 == [replaceContent(s2, content, g) EXCEPT
                            !.desired = content,
                            !.trace = Append(@, "replace"),
                            !.lastCycle = "binding"]
                   s4 == bindEvents(s3)
               IN IF s4.lastCycle = "threwBind"
                  THEN s4
                  ELSE restoreFocus([s4 EXCEPT !.lastCycle = "done"],
                                    s.focus.dataId, s.focus.cursor)

\* The cycles in which the render function was invoked.
Invoked(cycle) == cycle \in {"threwRender", "threwBind", "threwFocus", "done"}

\* ------------------------------------------------------------- lifecycle
\* mount that defers its first render to the scheduler.
mountDeferred(s, fn) ==
  scheduleRerender([s EXCEPT !.renderFn = fn, !.mounted = TRUE,
                             !.everMounted = TRUE])

\* app.mount(fn).  The adoption of the registered critical style sheets that
\* precedes the three statements below touches none of the state kept here.
mount(s, fn) ==
  rerender([s EXCEPT !.renderFn = fn, !.mounted = TRUE, !.everMounted = TRUE])

\* The loop of destroy() over Object.keys(scopes).
RECURSIVE destroyScopes(_, _)
destroyScopes(s, names) ==
  IF names = {}
  THEN s
  ELSE LET name == CHOOSE n \in names : TRUE
       IN destroyScopes(scopeDestroy(s, s.scopes[name]), names \ {name})

\* What destroy() records of the state it is called in.
Found(s) ==
  [mounted |-> s.mounted, content |-> s.container # <<>>,
   names |-> DOMAIN s.scopes, timers |-> s.hostTimers,
   listeners |-> s.attached, keys |-> DOMAIN s.globalState,
   handlers |-> DOMAIN s.handlers, destroyed |-> s.destroyed]

\* The loops of destroy() over the tracking sets with clearInterval left out:
\* the set is emptied all the same.
clearTimeoutsOnly(s) ==
  [s EXCEPT
     !.hostTimers = [id \in (DOMAIN @) \ s.timeouts |-> @[id]],
     !.intervals = {},
     !.timeouts = {}]

\* The two loops of destroy() over the tracking sets.
clearTrackedTimers(s) ==
  [s EXCEPT
     !.hostTimers = [id \in (DOMAIN @) \ (s.intervals \cup s.timeouts) |-> @[id]],
     !.intervals = {},
     !.timeouts = {}]

\* The last statements of destroy() with the global state left as it is.
clearRestKeepsState(s) ==
  [s EXCEPT !.container = <<>>, !.handlers = EmptyObj, !.owner = EmptyObj]

\* The last statements of destroy() with the handler registry left as it is.
clearRestKeepsHandlers(s) ==
  [s EXCEPT !.container = <<>>, !.globalState = EmptyObj]

\* The last statements of destroy(): container, global state, handlers.
clearRest(s) ==
  [s EXCEPT !.focus = IF @.el \in {s.container[i].id : i \in 1..Len(s.container)}
                      THEN NoFocus ELSE @,
            !.container = <<>>,
            !.globalState = EmptyObj,
            !.handlers = EmptyObj,
            !.owner = EmptyObj]

\* app.destroy()
destroy(s) ==
  LET s1 == cleanupListeners([s EXCEPT !.mounted = FALSE, !.renderFn = Null])
      s2 == clearTrackedTimers(s1)
      s3 == destroyScopes(s2, DOMAIN s2.scopes)
  IN [clearRest(s3) EXCEPT
        !.destroyed = TRUE,
        !.destroyMark = s.nextTimerId,
        !.teardown = Found(s),
        !.timerLog = [id \in DOMAIN @ |->
                        IF @[id].gone = "no"
                        THEN [@[id] EXCEPT !.gone = "destroyed"]
                        ELSE @[id]]]

\* ---------------------------------------------------------------- actions
\* A call starts from the current state with no render cycle run yet, and
\* leaves its name behind.
Pre ==
  [St EXCEPT !.lastCycle = "none", !.teardown = NoTeardown, !.lastCall = NoCall,
             !.trace = <<>>]
Done(s, op) == Commit([s EXCEPT !.lastOp = op])

\* The scope objects created so far; a caller may hold any of them.
ScopeRefs == 1..Len(scopeObjs)

\* The host starts a task (a script, an event dispatch): one synchronous block.
BeginTask ==
  /\ ~running
  /\ microQueue = <<>>
  /\ other.microQueue = <<>>
  /\ Commit([St EXCEPT !.running = TRUE, !.calls = 0, !.cpRenders = 0])

\* The synchronous block returns to the host: the microtask checkpoint follows.
EndTask ==
  /\ running
  /\ Commit([St EXCEPT !.running = FALSE, !.lastCall = NoCall])

\* The callback of scheduleRerender that lowers the pending flag when
\* rerender() has returned, so not when it throws.
microtaskLowersFlagOnReturn(s) ==
  LET r == rerender(s)
  IN IF r.lastCycle \in {"threwRender", "threwBind", "threwFocus"}
     THEN r
     ELSE [r EXCEPT !.rerenderScheduled = FALSE]

\* The callback of scheduleRerender that lowers the pending flag after the
\* render cycle instead of before it.
microtaskLowersFlagLast(s) ==
  [rerender(s) EXCEPT !.rerenderScheduled = FALSE]

\* The microtask checkpoint runs the oldest queued callback of scheduleRerender.
microtaskKeepsFlag(s) == rerender(s)

microtask(s) == rerender([s EXCEPT !.rerenderScheduled = FALSE])

RunMicrotask ==
  /\ ~running
  /\ microQueue # <<>>
  /\ LET origin == Head(microQueue)
         s1 == microtask([Pre EXCEPT !.microQueue = Tail(@)])
     IN Done([s1 EXCEPT !.cpRenders =
                         IF origin = "block" /\ Invoked(s1.lastCycle)
                         THEN @ + 1 ELSE @], "micro")

SetState(key, value) ==
  /\ running
  /\ mounted => calls < MaxCalls
  /\ Done(setState(Pre, key, value), "call")

DeleteState(key) ==
  /\ running
  /\ Done(deleteState(Pre, key), "call")

CreateScope(name) ==
  /\ running
  /\ name \in DOMAIN scopes \/ Len(scopeObjs) < MaxScopes
  /\ Done(createScope(Pre, name), "call")

ScopeSetState(i, key, value) ==
  /\ running
  /\ mounted => calls < MaxCalls
  /\ Done(scopeSetState(Pre, i, key, value), "call")

ScopeDeleteState(i, key) ==
  /\ running
  /\ Done(scopeDeleteState(Pre, i, key), "call")

ScopeOn(i, handlerName, fn) ==
  /\ running
  /\ Done(scopeOn(Pre, i, handlerName, fn), "call")

ScopeOff(i, handlerName) ==
  /\ running
  /\ Done(scopeOff(Pre, i, handlerName), "call")

ScopeDestroy(i) ==
  /\ running
  /\ Done(scopeDestroy(Pre, i), "call")

On(name, fn) ==
  /\ running
  /\ Done(on(Pre, name, fn), "call")

Off(name) ==
  /\ running
  /\ Done(off(Pre, name), "call")

SafeSetInterval ==
  /\ running
  /\ nextTimerId <= MaxTimers
  /\ Done(safeSetInterval(Pre), "call")

SafeClearInterval(id) ==
  /\ running
  /\ Done(safeClearInterval(Pre, id), "call")

SafeSetTimeout ==
  /\ running
  /\ nextTimerId <= MaxTimers
  /\ Done(safeSetTimeout(Pre), "call")

SafeClearTimeout(id) ==
  /\ running
  /\ Done(safeClearTimeout(Pre, id), "call")

\* The host runs the callback of interval id: a task of its own.
FireInterval(id) ==
  /\ ~running
  /\ microQueue = <<>>
  /\ other.microQueue = <<>>
  /\ id \in DOMAIN hostTimers
  /\ hostTimers[id] = "interval"
  /\ Commit([St EXCEPT !.running = TRUE, !.calls = 0, !.cpRenders = 0])

\* The host runs the wrapper safeSetTimeout gave it for timeout id, which
\* drops the id from the tracking set and calls the callback.
FireTimeout(id) ==
  /\ ~running
  /\ microQueue = <<>>
  /\ other.microQueue = <<>>
  /\ id \in DOMAIN hostTimers
  /\ hostTimers[id] = "timeout"
  /\ Commit(timeoutFired([St EXCEPT !.running = TRUE, !.calls = 0,
                                    !.cpRenders = 0,
                                    !.hostTimers = Del(@, id)], id))

Mount(fn) ==
  /\ running
  /\ (fn = "writer") => calls < MaxCalls
  /\ Done(mount(Pre, fn), "mount")

Destroy ==
  /\ running
  /\ Done(destroy(Pre), "destroy")

\* The record a step leaves of the call it made.
Noted(s, op, name, key, ref, hit) ==
  [s EXCEPT !.lastCall =
     [op |-> op, name |-> name, key |-> key, ref |-> ref, hit |-> hit]]

\* app.createScope(name), the scope object it returned recorded: hit says
\* the name was registered when the call was made.
CallCreateScope(name) ==
  /\ running
  /\ name \in DOMAIN scopes \/ Len(scopeObjs) < MaxScopes
  /\ LET s1 == createScope(Pre, name)
     IN Done(Noted(s1, "createScope", name, "", getScope(s1, name),
                   name \in DOMAIN scopes), "call")

\* scope.destroy() through the scope object i, recorded: hit says the scope
\* was the one registered under its name, held private state, and the
\* registry held a handler under its prefix.
CallScopeDestroy(i) ==
  /\ running
  /\ LET name == scopeObjs[i].name
     IN Done(Noted(scopeDestroy(Pre, i), "scope.destroy", name, "", i,
                   /\ getScope(St, name) = i
                   /\ scopeObjs[i].localState # EmptyObj
                   /\ \E key \in DOMAIN handlers :
                        StartsWith(key, name \o <<":">>)), "call")

\* app.deleteState(key), recorded: hit says the key was present.
CallDeleteState(key) ==
  /\ running
  /\ Done(Noted(deleteState(Pre, key), "deleteState", <<>>, key, 0,
                key \in DOMAIN globalState), "call")

\* scope.deleteState(key) through the scope object i, recorded: hit says the
\* key was present.
CallScopeDeleteState(i, key) ==
  /\ running
  /\ Done(Noted(scopeDeleteState(Pre, i, key), "scope.deleteState",
                scopeObjs[i].name, key, i,
                key \in DOMAIN scopeObjs[i].localState), "call")

\* app.setState(key, value), recorded: hit says the key was present.
CallSetState(key, value) ==
  /\ running
  /\ mounted => calls < MaxCalls
  /\ Done(Noted(setState(Pre, key, value), "setState", <<>>, key, 0,
                key \in DOMAIN globalState), "call")

\* scope.setState(key, value) through the scope object i, recorded: hit says
\* the key was present.
CallScopeSetState(i, key, value) ==
  /\ running
  /\ mounted => calls < MaxCalls
  /\ Done(Noted(scopeSetState(Pre, i, key, value), "scope.setState",
                scopeObjs[i].name, key, i,
                key \in DOMAIN scopeObjs[i].localState), "call")

\* scope.getGlobal(key) through the scope object i, recorded: hit says the
\* global state holds the key.  The call returns a value and assigns nothing.
CallGetGlobal(i, key) ==
  /\ running
  /\ Done(Noted(Pre, "scope.getGlobal", scopeObjs[i].name, key, i,
                scopeGetGlobal(St, i, key) # Undefined), "call")

\* ------------------------------------------------------------ reconciler
\* A DOM node: its kind (nodeType), tag (nodeName), textContent of a text
\* node, attributes, child nodes, and for a live node its identity.  typed is
\* the value a user or a script gave the value property of an input, Untyped
\* while the property still follows the value attribute.
Untyped == "<untyped>"

Text(t) ==
  [kind |-> "text", tag |-> "#text", text |-> t, attrs |-> EmptyObj,
   typed |-> Untyped, kids |-> <<>>, id |-> <<>>]

Element(tag, attrs, kids) ==
  [kind |-> "element", tag |-> tag, text |-> "", attrs |-> attrs,
   typed |-> Untyped, kids |-> kids, id |-> <<>>]

\* 'value' in el: the elements that have a value property.
HasValue(n) == n.kind = "element" /\ n.tag = "input"

\* el.value: what was typed or assigned, else the value attribute, else "".
ValueProp(n) ==
  IF n.typed # Untyped THEN n.typed
  ELSE IF "value" \in DOMAIN n.attrs THEN n.attrs["value"] ELSE ""

\* parent.replaceChild(node, old) and parent.removeChild(old) on the child
\* list ch of the parent, the old node found by its identity.
replaceChild(ch, node, oldId) ==
  [i \in 1..Len(ch) |-> IF ch[i].id = oldId THEN node ELSE ch[i]]

removeChild(ch, oldId) ==
  LET keep == {i \in 1..Len(ch) : ch[i].id # oldId}
      at(n) == CHOOSE i \in keep : Cardinality({j \in keep : j < i}) = n - 1
  IN [n \in 1..Cardinality(keep) |-> ch[at(n)]]

\* node.cloneNode(true): a fresh node, and fresh descendants; path is where
\* the copy is put, which names it.
RECURSIVE cloneNode(_, _)
cloneNode(n, path) ==
  [n EXCEPT !.id = <<0>> \o path,
            !.kids = [j \in 1..Len(n.kids) |-> cloneNode(n.kids[j], path \o <<j>>)]]

\* syncAttrs that sets attributes only and never assigns the value property.
syncAttrsAttributesOnly(oldNode, newNode) ==
  [oldNode EXCEPT !.attrs = newNode.attrs]

\* syncAttrs that assigns the value property whenever the desired element
\* has a value attribute, changed or not.
syncAttrsAssignsValue(oldNode, newNode) ==
  LET o1 == [oldNode EXCEPT !.attrs = newNode.attrs]
  IN IF "value" \in DOMAIN newNode.attrs /\ HasValue(o1)
     THEN [o1 EXCEPT !.typed = newNode.attrs["value"]]
     ELSE o1

\* syncAttrs without its first loop: attributes the desired element lacks
\* stay on the live element.
syncAttrsKeepsOld(oldNode, newNode) ==
  [oldNode EXCEPT !.attrs =
     [a \in DOMAIN oldNode.attrs \cup DOMAIN newNode.attrs |->
        IF a \in DOMAIN newNode.attrs THEN newNode.attrs[a] ELSE oldNode.attrs[a]]]

\* syncAttrs(oldEl, newEl): the live element after both loops.
syncAttrs(oldNode, newNode) ==
  LET kept == [a \in DOMAIN oldNode.attrs \cap DOMAIN newNode.attrs |->
                 oldNode.attrs[a]]
      differs == {a \in DOMAIN newNode.attrs :
                    ~(a \in DOMAIN kept /\ kept[a] = newNode.attrs[a])}
      o1 == [oldNode EXCEPT !.attrs =
               [a \in DOMAIN newNode.attrs |->
                  IF a \in differs THEN newNode.attrs[a] ELSE kept[a]]]
  IN IF /\ "value" \in differs
        /\ HasValue(o1)
        /\ ValueProp(o1) # newNode.attrs["value"]
     THEN [o1 EXCEPT !.typed = newNode.attrs["value"]]
     ELSE o1

\* patch that replaces the live node by a copy of the desired node whatever
\* the two nodes are.
patchAlwaysReplaces(ch, oldNode, newNode, path) ==
  replaceChild(ch, cloneNode(newNode, path), oldNode.id)

RECURSIVE patch(_, _, _, _)
RECURSIVE reconcileLoop(_, _, _, _, _)

\* reconcileChildren(oldEl, newEl) on the child lists: the children of the
\* live parent after the loop.
reconcileChildren(oldCh, newCh, path) == reconcileLoop(oldCh, oldCh, newCh, 1, path)

\* patch(oldParent, oldNode, newNode): the children of oldParent afterwards.
patch(ch, oldNode, newNode, path) ==
  IF oldNode.kind # newNode.kind
  THEN replaceChild(ch, cloneNode(newNode, path), oldNode.id)
  ELSE IF newNode.kind = "text"
  THEN IF oldNode.text # newNode.text
       THEN replaceChild(ch, [oldNode EXCEPT !.text = newNode.text], oldNode.id)
       ELSE ch
  ELSE IF newNode.kind # "element"
  THEN ch
  ELSE IF oldNode.tag # newNode.tag
  THEN replaceChild(ch, cloneNode(newNode, path), oldNode.id)
  ELSE LET o1 == syncAttrs(oldNode, newNode)
       IN replaceChild(ch, [o1 EXCEPT !.kids =
                                 reconcileChildren(o1.kids, newNode.kids, path)],
                       oldNode.id)

\* The for loop of reconcileChildren from index i on (1-based): ch is the
\* live child list so far, oldCh and newCh the two snapshots.
reconcileLoop(ch, oldCh, newCh, i, path) ==
  IF i > Len(oldCh) /\ i > Len(newCh)
  THEN ch
  ELSE reconcileLoop(
         IF i > Len(oldCh)
         THEN Append(ch, cloneNode(newCh[i], path \o <<i>>))
         ELSE IF i > Len(newCh)
         THEN removeChild(ch, oldCh[i].id)
         ELSE patch(ch, oldCh[i], newCh[i], path \o <<i>>),
         oldCh, newCh, i + 1, path)

\* The trees the reconciler is run on: text nodes, inputs whose attributes
\* differ, and elements with children of their own.
DesiredNodes ==
  {Text("s"), Text("t"),
   Element("input", "value" :> "u", <<>>),
   Element("input", ("value" :> "v") @@ ("class" :> "c"), <<>>),
   Element("div", EmptyObj, <<Text("s")>>),
   Element("div", "class" :> "c",
           <<Element("input", "value" :> "u", <<>>), Text("t")>>)}

\* The child lists of at most DiffLen nodes.
ChildLists == UNION {[1..n -> DesiredNodes] : n \in 0..DiffLen}

\* What a user types into an input, or a script assigns to its value.
TypedVals == {"w", "v"}

\* A tree as it stands in the document: every node has an identity, here
\* the path that leads to it.
RECURSIVE adopt(_, _)
adopt(n, path) ==
  [n EXCEPT !.id = path,
            !.kids = [j \in 1..Len(n.kids) |-> adopt(n.kids[j], path \o <<j>>)]]

\* Some live child list and some desired child list, before reconcileChildren
\* is called on them.
InitDiff ==
  /\ InitApp
  /\ other = NewApp
  /\ diffPc = "idle"
  /\ newEl \in ChildLists
  /\ \E l \in ChildLists : oldEl = [i \in 1..Len(l) |-> adopt(l[i], <<i>>)]

\* The user types into the live input at position i, or into the live input
\* that is child j of the element at position i.
TypeInto(i, t) ==
  /\ diffPc = "idle"
  /\ i \in 1..Len(oldEl)
  /\ HasValue(oldEl[i])
  /\ oldEl[i].typed = Untyped
  /\ oldEl' = [oldEl EXCEPT ![i].typed = t]
  /\ UNCHANGED <<newEl, diffPc, appVars>>

TypeIntoChild(i, j, t) ==
  /\ diffPc = "idle"
  /\ i \in 1..Len(oldEl)
  /\ j \in 1..Len(oldEl[i].kids)
  /\ HasValue(oldEl[i].kids[j])
  /\ oldEl[i].kids[j].typed = Untyped
  /\ oldEl' = [oldEl EXCEPT ![i].kids[j].typed = t]
  /\ UNCHANGED <<newEl, diffPc, appVars>>

\* reconcileChildren(oldEl, newEl)
Reconcile ==
  /\ diffPc = "idle"
  /\ oldEl' = reconcileChildren(oldEl, newEl, <<>>)
  /\ diffPc' = "patched"
  /\ UNCHANGED <<newEl, appVars>>

\* The second container with the handler registry kept at module level: one
\* registry for every container.
SecondSharesHandlers ==
  [other EXCEPT !.running = running, !.hostTimers = hostTimers,
                !.nextTimerId = nextTimerId, !.handlers = handlers]

\* ------------------------------------------------------- second container
\* The state a method of the second container runs in: the closure variables
\* of its own createApp call, and the host both containers live in, with its
\* one pool of timers.
Second ==
  [other EXCEPT !.running = running, !.hostTimers = hostTimers,
                !.nextTimerId = nextTimerId]

\* What a container's methods keep in the closure of its createApp call.
ClosureOf(s) ==
  [globalState |-> s.globalState, scopes |-> s.scopes,
   scopeObjs |-> s.scopeObjs, handlers |-> s.handlers,
   activeListeners |-> s.activeListeners, intervals |-> s.intervals,
   timeouts |-> s.timeouts, rerenderScheduled |-> s.rerenderScheduled,
   mounted |-> s.mounted, renderFn |-> s.renderFn]

\* The state a call on the second container leaves behind: its closure
\* variables and its part of the document are its own, the timers are the
\* host's; nothing else is kept of the call but its name.
StoreSecond(s, op) ==
  /\ other' = [NewApp EXCEPT
                 !.globalState = s.globalState, !.scopes = s.scopes,
                 !.scopeObjs = s.scopeObjs, !.handlers = s.handlers,
                 !.owner = s.owner,
                 !.activeListeners = s.activeListeners,
                 !.intervals = s.intervals, !.timeouts = s.timeouts,
                 !.rerenderScheduled = s.rerenderScheduled,
                 !.mounted = s.mounted, !.renderFn = s.renderFn,
                 !.container = s.container, !.attached = s.attached,
                 !.microQueue = s.microQueue, !.destroyed = s.destroyed,
                 !.lastOp = op]
  /\ hostTimers' = s.hostTimers
  /\ nextTimerId' = s.nextTimerId
  /\ UNCHANGED <<globalState, scopes, renderFn, mounted, activeListeners,
                 intervals, timeouts, rerenderScheduled, handlers, scopeObjs,
                 container, attached, microQueue, running, lastOp, lastCycle,
                 dirty, calls, cpRenders, everMounted, destroyed, destroyMark,
                 desired, teardown, lastCall, owner, timerLog, tally,
                 trace, focus, intervalId, diffVars>>

SecondSetState(key, value) ==
  /\ running
  /\ ~other.rerenderScheduled
  /\ StoreSecond(setState(Second, key, value), "call")

SecondOn(name, fn) == running /\ StoreSecond(on(Second, name, fn), "call")

SecondSafeSetInterval ==
  /\ running
  /\ nextTimerId <= MaxTimers
  /\ StoreSecond(safeSetInterval(Second), "call")

SecondMount(fn) == running /\ StoreSecond(mount(Second, fn), "mount")

SecondDestroy == running /\ StoreSecond(destroy(Second), "destroy")

\* The microtask checkpoint runs the render the second container queued.
SecondMicrotask ==
  /\ ~running
  /\ other.microQueue # <<>>
  /\ StoreSecond(microtask([Second EXCEPT !.microQueue = Tail(@)]), "micro")

\* ---------------------------------------------------------- specifications
Host == BeginTask \/ EndTask \/ RunMicrotask

\* All of the container's operations.
NextAll ==
  \/ Host
  \/ \E k \in Keys, v \in Vals : SetState(k, v)
  \/ \E k \in Keys : DeleteState(k)
  \/ \E n \in ScopeNames : CreateScope(n)
  \/ \E i \in ScopeRefs, k \in Keys, v \in Vals : ScopeSetState(i, k, v)
  \/ \E i \in ScopeRefs, k \in Keys : ScopeDeleteState(i, k)
  \/ \E i \in ScopeRefs, h \in HandlerNames, f \in Fns : ScopeOn(i, h, f)
  \/ \E i \in ScopeRefs, h \in HandlerNames : ScopeOff(i, h)
  \/ \E i \in ScopeRefs : ScopeDestroy(i)
  \/ \E n \in GlobalHandlerNames, f \in Fns : On(n, f)
  \/ \E n \in GlobalHandlerNames : Off(n)
  \/ SafeSetInterval
  \/ SafeSetTimeout
  \/ \E id \in 1..MaxTimers : SafeClearInterval(id)
  \/ \E id \in 1..MaxTimers : SafeClearTimeout(id)
  \/ \E id \in 1..MaxTimers : FireInterval(id)
  \/ \E id \in 1..MaxTimers : FireTimeout(id)
  \/ \E fn \in RenderFns : Mount(fn)
  \/ Destroy

SpecAll == Init /\ [][NextAll]_vars

\* The scheduler: state writes, mount, destroy and the microtask checkpoint.
Next ==
  \/ Host
  \/ \E v \in Vals : SetState("k1", v)
  \/ DeleteState("k1")
  \/ \E n \in ScopeNames : CreateScope(n)
  \/ \E i \in ScopeRefs : ScopeSetState(i, "k1", 0)
  \/ \E fn \in {"global", "scoped", "writer"} : Mount(fn)
  \/ Destroy

Spec == Init /\ [][Next]_vars

\* The event binder: handler registration, renders and what they bind.
NextBind ==
  \/ Host
  \/ SetState("k1", 0)
  \/ \E f \in Fns : On(<<"g">>, f)
  \/ On(<<"a", ":", "x">>, "F2")
  \/ Off(<<"g">>)
  \/ CreateScope(<<"a">>)
  \/ \E i \in ScopeRefs : ScopeOn(i, <<"x">>, "F1")
  \/ \E fn \in RenderFns : Mount(fn)
  \/ Destroy

SpecBind == Init /\ [][NextBind]_vars

\* Timers: the safe timer helpers, the host firing timers, mount and destroy.
NextTimers ==
  \/ Host
  \/ SafeSetInterval
  \/ SafeSetTimeout
  \/ \E id \in 1..MaxTimers : SafeClearInterval(id)
  \/ \E id \in 1..MaxTimers : SafeClearTimeout(id)
  \/ \E id \in 1..MaxTimers : FireInterval(id)
  \/ \E id \in 1..MaxTimers : FireTimeout(id)
  \/ SetState("k1", 0)
  \/ Mount("global")
  \/ Destroy

SpecTimers == Init /\ [][NextTimers]_vars

\* Scopes: creation, private state, namespaced handlers, scope and container
\* teardown.
NextScopes ==
  \/ BeginTask
  \/ EndTask
  \/ \E n \in ScopeNames : CallCreateScope(n)
  \/ \E i \in ScopeRefs : ScopeSetState(i, "k1", 0)
  \/ \E i \in ScopeRefs, h \in HandlerNames : ScopeOn(i, h, "F1")
  \/ On(<<"a", ":", "x">>, "F2")
  \/ \E i \in ScopeRefs : CallScopeDestroy(i)
  \/ Destroy

SpecScopes == Init /\ [][NextScopes]_vars

\* State: global and scoped writes and deletions around a mounted render.
NextState ==
  \/ Host
  \/ \E k \in Keys : SetState(k, 0)
  \/ \E k \in Keys : CallDeleteState(k)
  \/ CreateScope(<<"a">>)
  \/ \E i \in ScopeRefs, k \in Keys : ScopeSetState(i, k, 0)
  \/ \E i \in ScopeRefs, k \in Keys : CallScopeDeleteState(i, k)
  \/ On(<<"g">>, "F1")
  \/ Mount("global")

SpecState == Init /\ [][NextState]_vars

\* Isolation: writes and deletions through the container and through two
\* scopes, and a scope's reads of the global state.
NextIsolation ==
  \/ Host
  \/ \E v \in Vals : CallSetState("k1", v)
  \/ CallDeleteState("k1")
  \/ \E n \in ScopeNames : CreateScope(n)
  \/ \E i \in ScopeRefs, v \in Vals : CallScopeSetState(i, "k1", v)
  \/ \E i \in ScopeRefs : CallScopeDeleteState(i, "k1")
  \/ \E i \in ScopeRefs : CallGetGlobal(i, "k1")
  \/ Mount("scoped")

SpecIsolation == Init /\ [][NextIsolation]_vars

\* The reconciler: reconcileChildren on a live and a desired child list.
NextDiff ==
  \/ \E i \in 1..DiffLen, t \in TypedVals : TypeInto(i, t)
  \/ \E i \in 1..DiffLen, j \in 1..2, t \in TypedVals : TypeIntoChild(i, j, t)
  \/ Reconcile

SpecDiff == InitDiff /\ [][NextDiff]_vars

\* Two containers in one document: the same calls on each of them, each
\* mounted once and left alone once it is destroyed.
NextTwo ==
  \/ BeginTask
  \/ EndTask
  \/ RunMicrotask
  \/ ~destroyed /\ ~rerenderScheduled /\ SetState("k1", 0)
  \/ ~destroyed /\ CreateScope(<<"a">>)
  \/ ~destroyed /\ On(<<"g">>, "F1")
  \/ ~destroyed /\ intervals = {} /\ SafeSetInterval
  \/ ~destroyed /\ \E id \in 1..MaxTimers : SafeClearInterval(id)
  \/ ~destroyed /\ ~mounted /\ Mount("global")
  \/ ~destroyed /\ Destroy
  \/ SecondMicrotask
  \/ ~other.destroyed /\ SecondSetState("k1", 1)
  \/ ~other.destroyed /\ SecondOn(<<"g">>, "F2")
  \/ ~other.destroyed /\ other.intervals = {} /\ SecondSafeSetInterval
  \/ ~other.destroyed /\ ~other.mounted /\ SecondMount("global")
  \/ ~other.destroyed /\ SecondDestroy

SpecTwo == Init /\ [][NextTwo]_vars

\* ------------------------------------------------------------------ claims
\* The application is idle: no synchronous block runs and no callback waits.
Quiescent == ~running /\ microQueue = <<>>

\* The checkpoint has run every callback the last synchronous block queued.
CheckpointDone == ~running /\ "block" \notin Range(microQueue)

\* ---------------------------------------------------------------------------
\* The counter component
\* ---------------------------------------------------------------------------

CounterHandlers == {<<"increment">>, <<"decrement">>, <<"count_reset">>}

\* An increment handler that adds one to the count shown by the last render
\* instead of to the stored count.
runHandlerFromRendered(s, fn) ==
  CASE fn = "increment" ->
         setState(s, "count",
                  (IF s.container # <<>> /\ s.container[1].text # <<>>
                   THEN s.container[1].text[1] ELSE 0) + 1)
    [] fn = "decrement" -> setState(s, "count", getState(s, "count") - 1)
    [] fn = "count_reset" -> setState(s, "count", 0)

\* The bodies of the three handlers.
runHandler(s, fn) ==
  CASE fn = "increment" -> setState(s, "count", getState(s, "count") + 1)
    [] fn = "decrement" -> setState(s, "count", getState(s, "count") - 1)
    [] fn = "count_reset" -> setState(s, "count", 0)

\* CounterComponent(app) up to the return of its render function: the initial
\* count and the three registrations.
counterSetup(s) ==
  on(on(on(setState(s, "count", 0),
           <<"increment">>, "increment"),
        <<"decrement">>, "decrement"),
     <<"count_reset">>, "count_reset")

\* The tally of increments less decrements since the last reset or the start.
Tallied(s, fn) ==
  [s EXCEPT !.tally = CASE fn = "increment" -> @ + 1
                        [] fn = "decrement" -> @ - 1
                        [] fn = "count_reset" -> 0]

CounterComponent ==
  /\ running
  /\ ~everMounted
  /\ handlers = EmptyObj
  /\ Done([counterSetup(Pre) EXCEPT !.tally = 0], "call")

\* A click on one of the three buttons: the listener bound by the last render
\* runs the handler.
Dispatch(name) ==
  /\ running
  /\ calls < MaxCalls
  /\ name \in DOMAIN handlers
  /\ \E l \in attached : l.handler = handlers[name]
  /\ handlers[name] = "increment" => getState(St, "count") < MaxCount
  /\ handlers[name] = "decrement" => getState(St, "count") > 0 - MaxCount
  /\ Done(Noted(Tallied(runHandler(Pre, handlers[name]), handlers[name]),
                "dispatch", name, "count", 0, TRUE), "call")

NextCounter ==
  \/ Host
  \/ CounterComponent
  \/ handlers # EmptyObj /\ ~mounted /\ Mount("counter")
  \/ \E name \in CounterHandlers : Dispatch(name)

SpecCounter == Init /\ [][NextCounter]_vars

\* ---------------------------------------------------------------------------
\* The todo component
\* ---------------------------------------------------------------------------

\* Texts the input field can hold: a string is its sequence of characters.
TodoTexts == {<<" ">>, <<" ", "a", " ", "b", " ">>}

RECURSIVE trimStart(_)
trimStart(t) ==
  IF t # <<>> /\ Head(t) = " " THEN trimStart(Tail(t)) ELSE t

RECURSIVE trimEnd(_)
trimEnd(t) ==
  IF t # <<>> /\ t[Len(t)] = " " THEN trimEnd(SubSeq(t, 1, Len(t) - 1)) ELSE t

\* String.prototype.trim
trim(t) == trimEnd(trimStart(t))

\* The scope object the input molecule holds; its name is never created anew.
InputScope(s) == getScope(s, <<"todoInput">>)

\* addTodo that numbers the new item by the length of the list.
addTodoNumbersByLength(s) ==
  LET text == trim(scopeGetState(s, InputScope(s), "text"))
  IN IF text = <<>>
     THEN s
     ELSE LET todo == getScope(s, <<"todo">>)
              id == Len(scopeGetState(s, todo, "items")) + 1
              items == Append(scopeGetState(s, todo, "items"),
                              [id |-> id, text |-> text, completed |-> FALSE])
              s1 == scopeSetState(s, todo, "items", items)
              s2 == scopeSetState(s1, todo, "nextId", id + 1)
          IN scopeSetState(s2, InputScope(s), "text", <<>>)

addTodo(s) ==
  LET text == trim(scopeGetState(s, InputScope(s), "text"))
  IN IF text = <<>>
     THEN s
     ELSE LET todo == getScope(s, <<"todo">>)
              id == scopeGetState(s, todo, "nextId")
              items == Append(scopeGetState(s, todo, "items"),
                              [id |-> id, text |-> text, completed |-> FALSE])
              s1 == scopeSetState(s, todo, "items", items)
              s2 == scopeSetState(s1, todo, "nextId", id + 1)
          IN scopeSetState(s2, InputScope(s), "text", <<>>)

\* The "toggle" handler for the button whose data-todo-id is id.
toggleTodo(s, id) ==
  LET todo == getScope(s, <<"todo">>)
      old == scopeGetState(s, todo, "items")
      items == [k \in 1..Len(old) |->
                  IF old[k].id = id
                  THEN [old[k] EXCEPT !.completed = ~old[k].completed]
                  ELSE old[k]]
  IN scopeSetState(s, todo, "items", items)

\* The "delete" handler for the button whose data-todo-id is id.
deleteTodo(s, id) ==
  LET todo == getScope(s, <<"todo">>)
      Keeps(item) == item.id # id
      items == SelectSeq(scopeGetState(s, todo, "items"), Keeps)
  IN scopeSetState(s, todo, "items", items)

\* TodoComponent(app) with its input and list molecules, up to the return
\* of the render function.
todoSetup(s) ==
  LET a1 == createScope(s, <<"todo">>)
      a2 == scopeSetState(a1, getScope(a1, <<"todo">>), "items", <<>>)
      a3 == scopeSetState(a2, getScope(a2, <<"todo">>), "nextId", 1)
      b1 == createScope(a3, <<"todoInput">>)
      in == getScope(b1, <<"todoInput">>)
      b2 == scopeSetState(b1, in, "text", <<>>)
      b3 == scopeOn(b2, in, <<"input">>, "input")
      b4 == scopeOn(b3, in, <<"keydown">>, "keydown")
      b5 == scopeOn(b4, in, <<"add">>, "add")
      c1 == createScope(b5, <<"todoList">>)
      list == getScope(c1, <<"todoList">>)
      c2 == scopeOn(c1, list, <<"toggle">>, "toggle")
  IN scopeOn(c2, list, <<"delete">>, "delete")

TodoComponent ==
  /\ running
  /\ ~everMounted
  /\ scopeObjs = <<>>
  /\ Done(todoSetup(Pre), "call")

\* The element a listener is attached to.
TargetOf(l) == CHOOSE k \in 1..Len(container) : container[k].id = l.el

\* The items and the counter of the todo scope.
TodoItems(s) == scopeGetState(s, getScope(s, <<"todo">>), "items")
TodoNextId(s) == scopeGetState(s, getScope(s, <<"todo">>), "nextId")

\* An input event on the text field carrying its new value.
TodoInput(value) ==
  /\ running
  /\ calls < MaxCalls
  /\ \E l \in attached : l.handler = "input"
  /\ Done(Noted(scopeSetState(Pre, InputScope(Pre), "text", value),
                "dispatch", <<"input">>, "text", 0, TRUE), "call")

\* A keydown event on the text field.
TodoKeydown(key) ==
  /\ running
  /\ calls < MaxCalls
  /\ \E l \in attached : l.handler = "keydown"
  /\ key = "Enter" => TodoNextId(St) <= MaxTodos
  /\ Done(Noted(IF key = "Enter" THEN addTodo(Pre) ELSE Pre,
                "dispatch", <<"keydown">>, "text", 0, key = "Enter"), "call")

\* A click on the Add button.
TodoAdd ==
  /\ running
  /\ calls < MaxCalls
  /\ \E l \in attached : l.handler = "add"
  /\ TodoNextId(St) <= MaxTodos
  /\ Done(Noted(addTodo(Pre), "dispatch", <<"add">>, "text", 0, TRUE), "call")

\* A click on the checkbox of a rendered item.
TodoToggle ==
  /\ running
  /\ calls < MaxCalls
  /\ \E l \in attached :
       /\ l.handler = "toggle"
       /\ LET id == container[TargetOf(l)].text[1]
          IN Done(Noted(toggleTodo(Pre, id),
                        "dispatch", <<"toggle">>, "items", id, TRUE), "call")

\* A click on the delete button of a rendered item.
TodoDelete ==
  /\ running
  /\ calls < MaxCalls
  /\ \E l \in attached :
       /\ l.handler = "delete"
       /\ LET id == container[TargetOf(l)].text[1]
          IN Done(Noted(deleteTodo(Pre, id),
                        "dispatch", <<"delete">>, "items", id, TRUE), "call")

NextTodo ==
  \/ Host
  \/ TodoComponent
  \/ scopeObjs # <<>> /\ ~mounted /\ Mount("todo")
  \/ \E value \in TodoTexts : TodoInput(value)
  \/ \E key \in {"Enter", "a"} : TodoKeydown(key)
  \/ TodoAdd
  \/ TodoToggle
  \/ TodoDelete

SpecTodo == Init /\ [][NextTodo]_vars

\* ---------------------------------------------------------------------------
\* Focus: what the user focuses between two tasks, and what a render cycle
\* does to it
\* ---------------------------------------------------------------------------

\* The user puts the focus on element i of the container, the cursor at c if
\* it is a text input.
FocusOn(i, c) ==
  /\ ~running
  /\ microQueue = <<>>
  /\ i \in 1..Len(container)
  /\ Done([Pre EXCEPT !.focus =
             [el |-> container[i].id, dataId |-> container[i].dataId,
              cursor |-> IF container[i].sel = "text" THEN c
                         ELSE IF container[i].sel = "check" THEN NullCursor
                         ELSE Undefined]], "focus")

\* The user puts the focus on a text input outside the container that has the
\* data-id d, or none.
FocusOutside(d) ==
  /\ ~running
  /\ microQueue = <<>>
  /\ Done([Pre EXCEPT !.focus = [el |-> Outside, dataId |-> d, cursor |-> 0]],
          "focus")

\* The focus goes back to the document body.
Blur ==
  /\ ~running
  /\ microQueue = <<>>
  /\ focus # NoFocus
  /\ Done([Pre EXCEPT !.focus = NoFocus], "focus")

NextFocus ==
  \/ Host
  \/ \E v \in Vals : SetState("k1", v)
  \/ ~mounted /\ Mount("form")
  \/ \E i \in 1..3, c \in Vals : FocusOn(i, c)
  \/ \E d \in {"", "d1"} : FocusOutside(d)
  \/ Blur

SpecFocus == Init /\ [][NextFocus]_vars

\* A pending render and destroy(): no state is written once the container
\* was destroyed, so no render is queued after destroy().
NextStale ==
  \/ Host
  \/ ~destroyed /\ SetState("k1", 0)
  \/ On(<<"g">>, "F1")
  \/ Mount("global")
  \/ Destroy

SpecStale == Init /\ [][NextStale]_vars

\* The scheduler around render functions that write state or throw.
NextSched ==
  \/ Host
  \/ SetState("k1", 0)
  \/ CreateScope(<<"a">>)
  \/ \E fn \in {"scoped", "writer"} : Mount(fn)
  \/ Destroy

SpecSched == Init /\ [][NextSched]_vars

\* on and off, of the container and of a scope, with the call noted.
CallOn(name, fn) ==
  /\ running
  /\ Done(Noted(on(Pre, name, fn), "on", name, "", 0,
                name \in DOMAIN handlers), "call")

CallOff(name) ==
  /\ running
  /\ Done(Noted(off(Pre, name), "off", name, "", 0,
                name \in DOMAIN handlers), "call")

CallScopeOn(i, handlerName, fn) ==
  /\ running
  /\ LET key == Qualified(scopeObjs[i].name, handlerName)
     IN Done(Noted(scopeOn(Pre, i, handlerName, fn), "on", key, "", i,
                   key \in DOMAIN handlers), "call")

CallScopeOff(i, handlerName) ==
  /\ running
  /\ LET key == Qualified(scopeObjs[i].name, handlerName)
     IN Done(Noted(scopeOff(Pre, i, handlerName), "off", key, "", i,
                   key \in DOMAIN handlers), "call")

\* The handler registry: registration and removal around mounted renders.
NextRegistry ==
  \/ Host
  \/ SetState("k1", 0)
  \/ \E f \in Fns : CallOn(<<"g">>, f)
  \/ CallOff(<<"g">>)
  \/ CreateScope(<<"a">>)
  \/ \E i \in ScopeRefs, f \in Fns : CallScopeOn(i, <<"x">>, f)
  \/ \E i \in ScopeRefs : CallScopeOff(i, <<"x">>)
  \/ Mount("global")

SpecRegistry == Init /\ [][NextRegistry]_vars

\* A scope name used again: every method of every scope object ever handed
\* out, registered or not, with the call noted.
NextReuse ==
  \/ BeginTask
  \/ EndTask
  \/ CallCreateScope(<<"a">>)
  \/ \E i \in ScopeRefs : CallScopeSetState(i, "k1", 0)
  \/ \E i \in ScopeRefs : CallScopeDeleteState(i, "k1")
  \/ \E i \in ScopeRefs : CallScopeOn(i, <<"x">>, "F1")
  \/ \E i \in ScopeRefs : CallScopeOff(i, <<"x">>)
  \/ \E i \in ScopeRefs : CallScopeDestroy(i)

SpecReuse == Init /\ [][NextReuse]_vars

\* ---------------------------------------------------------------------------
\* The timer component
\* ---------------------------------------------------------------------------

TimerHandlers == {<<"start">>, <<"stop">>, <<"reset">>}

\* The scope the component created for itself.
TimerScope(s) == getScope(s, <<"timer">>)

\* Handlers whose start does not look at the running flag first.
runTimerHandlerStartsAlways(s, fn) ==
  LET scope == TimerScope(s)
  IN IF fn = "start"
     THEN LET s1 == scopeSetState(s, scope, "running", TRUE)
          IN [safeSetInterval(s1) EXCEPT !.intervalId = s1.nextTimerId]
     ELSE LET s1 == [safeClearInterval(s, s.intervalId)
                       EXCEPT !.intervalId = NoInterval]
              s2 == scopeSetState(s1, scope, "running", FALSE)
          IN IF fn = "reset" THEN scopeSetState(s2, scope, "seconds", 0)
                             ELSE s2

\* The bodies of the three handlers.
runTimerHandler(s, fn) ==
  LET scope == TimerScope(s)
  IN IF fn = "start"
     THEN IF scopeGetState(s, scope, "running")
          THEN s
          ELSE LET s1 == scopeSetState(s, scope, "running", TRUE)
               IN [safeSetInterval(s1) EXCEPT !.intervalId = s1.nextTimerId]
     ELSE LET s1 == [safeClearInterval(s, s.intervalId)
                       EXCEPT !.intervalId = NoInterval]
              s2 == scopeSetState(s1, scope, "running", FALSE)
          IN IF fn = "reset" THEN scopeSetState(s2, scope, "seconds", 0)
                             ELSE s2

\* The callback start hands to safeSetInterval.
timerTick(s) ==
  scopeSetState(s, TimerScope(s), "seconds",
                scopeGetState(s, TimerScope(s), "seconds") + 1)

\* TimerComponent(app) up to the return of its render function: the scope,
\* its initial state and the three registrations.
timerSetup(s) ==
  LET a1 == createScope(s, <<"timer">>)
      scope == getScope(a1, <<"timer">>)
      a2 == scopeSetState(a1, scope, "seconds", 0)
      a3 == scopeSetState(a2, scope, "running", FALSE)
      a4 == scopeOn(a3, scope, <<"start">>, "start")
      a5 == scopeOn(a4, scope, <<"stop">>, "stop")
  IN [scopeOn(a5, scope, <<"reset">>, "reset") EXCEPT !.intervalId = NoInterval]

TimerComponent ==
  /\ running
  /\ ~everMounted
  /\ scopeObjs = <<>>
  /\ Done(timerSetup(Pre), "call")

\* The seconds and the running flag of the timer scope.
TimerSeconds(s) == scopeGetState(s, TimerScope(s), "seconds")
TimerRunning(s) == scopeGetState(s, TimerScope(s), "running")

\* An event runs the handler registered under the timer's prefix.
TimerDispatch(name) ==
  /\ running
  /\ calls < MaxCalls
  /\ Qualified(<<"timer">>, name) \in DOMAIN handlers
  /\ (name = <<"start">> /\ ~TimerRunning(St)) => nextTimerId <= MaxTimers
  /\ Done(Noted(runTimerHandler(Pre, handlers[Qualified(<<"timer">>, name)]),
                "dispatch", Qualified(<<"timer">>, name), "", TimerScope(St),
                TRUE), "call")

\* The host runs the callback of interval id in a task of its own.
TimerTick(id) ==
  /\ ~running
  /\ microQueue = <<>>
  /\ other.microQueue = <<>>
  /\ id \in DOMAIN hostTimers
  /\ hostTimers[id] = "interval"
  /\ TimerSeconds(St) < MaxCount
  /\ Done(timerTick([Pre EXCEPT !.running = TRUE, !.calls = 0,
                                !.cpRenders = 0]), "tick")

NextTimerComponent ==
  \/ Host
  \/ TimerComponent
  \/ handlers # EmptyObj /\ ~mounted /\ Mount("timer")
  \/ \E name \in TimerHandlers : TimerDispatch(name)
  \/ \E id \in 1..MaxTimers : TimerTick(id)

SpecTimerComponent == Init /\ [][NextTimerComponent]_vars

C2_NoRenderBeforeMount ==
  ~everMounted =>
     /\ ~Invoked(lastCycle)
     /\ ~rerenderScheduled
     /\ microQueue = <<>>
     /\ container = <<>>

C2_Witness ==
  /\ ~everMounted /\ ~running
  /\ getState(St, "k1") = 1
  /\ \E i \in ScopeRefs : scopeGetState(St, i, "k1") = 0

\* C3: mount(fn) runs one render cycle before it returns, queues none, and
\* the tree of that cycle shows the values stored before the call.
C3_MountRendersNow ==
  [][\A fn \in RenderFns :
       (lastOp' = "mount" /\ running' /\ renderFn' = fn /\ Mount(fn)) =>
         /\ Invoked(lastCycle')
         /\ fn # "writer" =>
              /\ microQueue' = microQueue
              /\ rerenderScheduled' = rerenderScheduled
         /\ (lastCycle' = "done" /\ fn \in {"global", "writer"}) =>
              container'[1].text = <<Get(globalState, "k1"), Get(globalState, "k2")>>
         /\ (lastCycle' = "done" /\ fn = "scoped") =>
              container'[1].text =
                 <<Get(scopeObjs[scopes[<<"a">>]].localState, "k1")>>]_vars

C3_Witness ==
  /\ lastOp = "mount" /\ lastCycle = "done" /\ renderFn = "global"
  /\ microQueue = <<>>
  /\ container[1].text[1] = 1

\* C4: while mounted, once the microtask queue has drained no setState is left
\* that the render function has not been invoked after, and the tree of the
\* "global" render function shows the stored value of every stored key.
C4_NoWriteLeftUnrendered ==
  (mounted /\ Quiescent) =>
     /\ ~dirty
     /\ renderFn = "global" =>
          \A k \in DOMAIN globalState :
             container[1].text[IF k = "k1" THEN 1 ELSE 2] = globalState[k]

C4_Witness ==
  /\ mounted /\ Quiescent /\ lastOp = "micro" /\ lastCycle = "done"
  /\ renderFn = "global"
  /\ getState(St, "k1") = 1
  /\ \E i \in ScopeRefs : scopeGetState(St, i, "k1") = 0

C10_DestroyedIsTerminal ==
  destroyed => (~mounted /\ ~Invoked(lastCycle))

\* The bindings the data-on attributes of the tree of the last render cycle
\* declare, for the handler names the registry holds, on the elements now in
\* the container.
DeclaredBindings ==
  {[el |-> container[i].id, event |-> desired[i].on.map[j][1],
    handler |-> handlers[desired[i].on.map[j][2]]] :
     <<i, j>> \in {p \in (1..Len(desired)) \X (1..2) :
                     /\ desired[p[1]].on.kind = "map"
                     /\ p[2] <= Len(desired[p[1]].on.map)
                     /\ desired[p[1]].on.map[p[2]][2] \in DOMAIN handlers}}

\* A render cycle has just run to its end.
CycleCompleted == lastOp \in {"mount", "micro"} /\ lastCycle = "done"

\* C6: after every completed render cycle the recorded listeners are exactly
\* the declared bindings of that cycle's tree whose handler is registered, each
\* recorded once and attached, and no other listener is attached.
C6_ListenersMatchTree ==
  CycleCompleted =>
     /\ Len(desired) = Len(container)
     /\ Range(activeListeners) = DeclaredBindings
     /\ Len(activeListeners) = Cardinality(DeclaredBindings)
     /\ attached = DeclaredBindings

C6_Witness ==
  /\ CycleCompleted /\ lastOp = "micro"
  /\ container[1].id[1] = 1
  /\ renderFn = "global"
  /\ Len(activeListeners) = 2
  /\ <<"a", ":", "x">> \notin DOMAIN handlers

\* The last call was destroy().
JustDestroyed == lastOp = "destroy"

\* C7: after mount() and then destroy() the container has no content and
\* getScope(name) finds no scope, for every name registered before.
C7_DestroyEmptiesContainerAndScopes ==
  JustDestroyed =>
     /\ container = <<>>
     /\ \A n \in teardown.names : getScope(St, n) = NotFound
     /\ scopes = EmptyObj

C7_Witness ==
  /\ JustDestroyed
  /\ teardown.mounted /\ teardown.content
  /\ teardown.names = ScopeNames

\* C8: no timer created through safeSetInterval or safeSetTimeout before a
\* destroy() is active after it, whether or not the caller ever cleared it, and
\* destroy() leaves both tracking sets empty.
C8_DestroyStopsTimers ==
  /\ \A id \in 1..(destroyMark - 1) : id \notin DOMAIN hostTimers
  /\ JustDestroyed => (intervals = {} /\ timeouts = {})

C8_Witness ==
  /\ JustDestroyed
  /\ \E id \in DOMAIN teardown.timers : teardown.timers[id] = "interval"
  /\ \E id \in DOMAIN teardown.timers : teardown.timers[id] = "timeout"

\* C9: after destroy() global state has no keys, the handler registry and the
\* listener records are empty, and every listener that was attached is detached.
C9_DestroyClearsStateHandlersListeners ==
  JustDestroyed =>
     /\ globalState = EmptyObj
     /\ \A k \in Keys : getState(St, k) = Undefined
     /\ handlers = EmptyObj
     /\ activeListeners = <<>>
     /\ teardown.listeners \cap attached = {}
     /\ attached = {}

C9_Witness ==
  /\ JustDestroyed
  /\ Cardinality(teardown.listeners) >= 2
  /\ "k1" \in teardown.keys
  /\ {<<"g">>, <<"a", ":", "x">>} \subseteq teardown.handlers
  /\ <<"a">> \in teardown.names

\* A step that is a call of destroy() made somewhere in a synchronous block.
DestroyStep == running /\ running' /\ lastOp' = "destroy"

\* C11: destroy() on a container that was destroyed before leaves the
\* container content, the global state, the scope registry, the handler
\* registry, the listener records and both timer sets as a first destroy()
\* leaves them, all empty; called right after a destroy() it changes none of
\* them, nor the listeners attached or the timers of the host.
C11_SecondDestroyIsNoOp ==
  [][(destroyed /\ DestroyStep) =>
       /\ container' = <<>> /\ globalState' = EmptyObj /\ scopes' = EmptyObj
       /\ handlers' = EmptyObj /\ activeListeners' = <<>>
       /\ intervals' = {} /\ timeouts' = {}
       /\ JustDestroyed =>
            UNCHANGED <<container, globalState, scopes, handlers,
                        activeListeners, attached, intervals, timeouts,
                        hostTimers, mounted, renderFn>>]_vars

\* destroy() was called on a container that a destroy() before it had left
\* empty, and the container had been mounted once.
C11_Witness ==
  /\ JustDestroyed
  /\ teardown.destroyed
  /\ everMounted
  /\ teardown.keys = {} /\ teardown.handlers = {} /\ teardown.names = {}

\* The handler-registry entries under the prefix of scope name n.
HandlersOf(h, n) ==
  [key \in {k \in DOMAIN h : StartsWith(k, n \o <<":">>)} |-> h[key]]

\* C12: createScope(name) for a name that is registered returns the scope
\* object registered under it and resets nothing: the registry, every scope's
\* private state and the handler registry are as before the call, and a value
\* written through the returned object is read through the registered one, and
\* the other way round.
C12_CreateScopeReturnsExisting ==
  [][\A n \in ScopeNames :
       (n \in DOMAIN scopes /\ lastCall'.op = "createScope" /\ lastCall'.name = n) =>
          /\ lastCall'.ref = scopes[n]
          /\ scopes' = scopes
          /\ scopeObjs' = scopeObjs
          /\ HandlersOf(handlers', n) = HandlersOf(handlers, n)
          /\ handlers' = handlers
          /\ \A k \in Keys, v \in Vals :
               /\ scopeGetState(scopeSetState(St', lastCall'.ref, k, v), scopes[n], k) = v
               /\ scopeGetState(scopeSetState(St', scopes[n], k, v), lastCall'.ref, k) = v]_vars

\* createScope was called for a registered name whose scope holds private
\* state and a handler.
C12_Witness ==
  /\ lastCall.op = "createScope"
  /\ lastCall.hit
  /\ scopeObjs[lastCall.ref].localState # EmptyObj
  /\ HandlersOf(handlers, lastCall.name) # EmptyObj

\* C13: the registry maps every registered name to one scope object, which
\* carries that name, and the object bound to a name changes, or the name
\* leaves the registry, only in a call of destroy() of that object or of
\* destroy() of the container; createScope never rebinds a registered name.
C13_BindingChangesOnlyOnDestroy ==
  [][\A n \in DOMAIN scopes :
       /\ scopeObjs[scopes[n]].name = n
       /\ (n \notin DOMAIN scopes' \/ scopes'[n] # scopes[n]) =>
            \/ lastOp' = "destroy"
            \/ lastCall'.op = "scope.destroy" /\ lastCall'.ref = scopes[n]]_vars

\* The scope object i is the one the registry binds to its name.
Registered(i) == i \in 1..Len(scopeObjs) /\ getScope(St, scopeObjs[i].name) = i

\* C14: no handler-registry key is stored by on() of one registered scope
\* while it holds a handler stored by on() of another registered scope,
\* whatever the two scope names and the handler names are.
C14_NoSharedHandlerKey ==
  [][\A key \in DOMAIN handlers \cap DOMAIN handlers' :
       ~ /\ owner[key] # App /\ owner'[key] # App
         /\ owner'[key] # owner[key]
         /\ Registered(owner[key]) /\ Registered(owner'[key])]_vars

\* C15: after scope.destroy() the handler registry has no key that starts
\* with the scope's name and a colon, the scope's private state is empty, so
\* getState through the destroyed scope object finds no key, and getScope of
\* the scope's name finds no scope.
C15_ScopeDestroyRemovesAll ==
  lastCall.op = "scope.destroy" =>
     /\ HandlersOf(handlers, lastCall.name) = EmptyObj
     /\ scopeObjs[lastCall.ref].localState = EmptyObj
     /\ \A k \in Keys : scopeGetState(St, lastCall.ref, k) = Undefined
     /\ getScope(St, lastCall.name) = NotFound

\* destroy() was called on a registered scope that held private state while
\* the registry held handlers under its prefix.
C15_Witness ==
  /\ lastCall.op = "scope.destroy"
  /\ lastCall.hit

\* The timers of one kind made so far that have not ended: not cleared
\* through the helper of their kind, not fired as a one-shot timeout, not
\* cleared by destroy().
Live(kind) ==
  {id \in DOMAIN timerLog : timerLog[id].kind = kind /\ timerLog[id].gone = "no"}

\* C16: the interval tracking set holds the ids safeSetInterval returned that
\* neither safeClearInterval nor destroy() has cleared, the timeout tracking
\* set holds the ids safeSetTimeout returned that have not fired and that
\* neither safeClearTimeout nor destroy() has cleared, and every timer the
\* host still holds is in the tracking set of its kind.
C16_TrackingSetsExact ==
  /\ intervals = Live("interval")
  /\ timeouts = Live("timeout")
  /\ \A id \in DOMAIN hostTimers :
       /\ id \in DOMAIN timerLog
       /\ timerLog[id].kind = hostTimers[id]
       /\ id \in (IF hostTimers[id] = "interval" THEN intervals ELSE timeouts)

\* A one-shot timeout has fired and left its tracking set while an interval
\* is tracked, on a container that was never destroyed.
C16_Witness ==
  /\ \E id \in DOMAIN timerLog : timerLog[id].gone = "fired" /\ id \notin timeouts
  /\ intervals # {}
  /\ ~destroyed

\* The bindings the tree of the last render cycle declares, as pairs of the
\* position of the element and the position of the entry in its event map.
DeclaredEntries ==
  {p \in (1..Len(desired)) \X (1..2) :
     /\ desired[p[1]].on.kind = "map"
     /\ p[2] <= Len(desired[p[1]].on.map)}

\* The render function of the last render cycle returned a tree in which
\* every data-on attribute is a serialized event map.
RenderedWellFormed ==
  /\ lastOp \in {"mount", "micro"}
  /\ lastCycle \in {"threwBind", "done"}
  /\ \A i \in 1..Len(desired) : desired[i].on.kind # "bad"

\* C17: when the tree declares a binding whose handler name is not in the
\* registry, the render cycle still completes, no listener is attached for that
\* binding, and every declared binding whose handler is registered, on the same
\* element and on the others, is attached and recorded.
C17_MissingHandlerSkipped ==
  RenderedWellFormed =>
     /\ lastCycle = "done"
     /\ Len(container) = Len(desired)
     /\ \A p \in DeclaredEntries :
          LET el == container[p[1]].id
              event == desired[p[1]].on.map[p[2]][1]
              name == desired[p[1]].on.map[p[2]][2]
          IN IF name \in DOMAIN handlers
             THEN LET rec == [el |-> el, event |-> event, handler |-> handlers[name]]
                  IN rec \in attached /\ rec \in Range(activeListeners)
             ELSE \A r \in attached \cup Range(activeListeners) :
                    ~(r.el = el /\ r.event = event)

\* A render cycle completed on a tree in which one element declares a binding
\* with a missing handler and one with a registered handler, and another
\* element declares a registered one.
C17_Witness ==
  /\ RenderedWellFormed
  /\ lastCycle = "done"
  /\ renderFn = "global"
  /\ <<"a", ":", "x">> \notin DOMAIN handlers
  /\ <<"g">> \in DOMAIN handlers
  /\ Cardinality(attached) = 2

\* C18: a render cycle whose tree has an element with a data-on attribute
\* that is not a serialized event map runs to its end, and the declared
\* bindings of the other elements whose handler is registered are attached and
\* recorded.
C18_BadAttributeSkipped ==
  (/\ lastOp \in {"mount", "micro"}
   /\ lastCycle \in {"threwBind", "done"}
   /\ \E i \in 1..Len(desired) : desired[i].on.kind = "bad") =>
     /\ lastCycle = "done"
     /\ attached = DeclaredBindings
     /\ Range(activeListeners) = DeclaredBindings

\* C19: no render cycle, run by mount() or at the microtask checkpoint, ends
\* in an exception, whatever the render function does and whatever bindings
\* its tree declares.
C19_NoExceptionFromRenderCycle ==
  lastOp \in {"mount", "micro"} => lastCycle \notin {"threwRender", "threwBind"}

\* The mapping new is the mapping old without key k, every other key with
\* the value it had.
Removed(old, new, k) ==
  /\ DOMAIN new = DOMAIN old \ {k}
  /\ \A k2 \in DOMAIN new : new[k2] = old[k2]

\* C20: deleteState(key), of the container or of a scope, removes that key
\* from its mapping and leaves every other key of the mapping, every other
\* mapping, the scope registry and the handler registry as they were, and it
\* queues no render and raises no pending flag, mounted or not.
C20_DeleteStateRemovesOnlyKey ==
  [][/\ lastCall'.op = "deleteState" =>
          /\ Removed(globalState, globalState', lastCall'.key)
          /\ scopeObjs' = scopeObjs
     /\ lastCall'.op = "scope.deleteState" =>
          /\ globalState' = globalState
          /\ Len(scopeObjs') = Len(scopeObjs)
          /\ \A j \in 1..Len(scopeObjs) :
               IF j = lastCall'.ref
               THEN /\ scopeObjs'[j].name = scopeObjs[j].name
                    /\ Removed(scopeObjs[j].localState, scopeObjs'[j].localState,
                               lastCall'.key)
               ELSE scopeObjs'[j] = scopeObjs[j]
     /\ lastCall'.op \in {"deleteState", "scope.deleteState"} =>
          /\ scopes' = scopes
          /\ handlers' = handlers
          /\ microQueue' = microQueue
          /\ rerenderScheduled' = rerenderScheduled
          /\ mounted' = mounted
          /\ container' = container]_vars

\* deleteState removed a key of the global state of a mounted container with
\* no render pending, while the other key, a scope's private state and a
\* handler were there.
C20_Witness ==
  /\ lastCall.op = "deleteState"
  /\ lastCall.hit
  /\ mounted /\ ~rerenderScheduled
  /\ DOMAIN globalState = Keys \ {lastCall.key}
  /\ \E i \in ScopeRefs : scopeObjs[i].localState # EmptyObj
  /\ handlers # EmptyObj

\* C21: setState and deleteState through a scope object leave the private
\* state of every other scope object and the global state as they were;
\* setState and deleteState of the container leave every scope's private state
\* as it was; getGlobal returns what getState of the container returns and
\* changes neither.
C21_ScopedStateIsolated ==
  [][/\ lastCall'.op \in {"scope.setState", "scope.deleteState"} =>
          /\ globalState' = globalState
          /\ Len(scopeObjs') = Len(scopeObjs)
          /\ \A j \in 1..Len(scopeObjs) :
               j # lastCall'.ref => scopeObjs'[j] = scopeObjs[j]
     /\ lastCall'.op \in {"setState", "deleteState"} =>
          scopeObjs' = scopeObjs
     /\ lastCall'.op = "scope.getGlobal" =>
          /\ globalState' = globalState
          /\ scopeObjs' = scopeObjs
          /\ scopeGetGlobal(St', lastCall'.ref, lastCall'.key)
               = getState(St, lastCall'.key)]_vars

\* A scope wrote a key that another scope and the global state hold with a
\* different value.
C21_Witness ==
  /\ lastCall.op = "scope.setState"
  /\ Len(scopeObjs) = 2
  /\ \E j \in ScopeRefs :
       /\ j # lastCall.ref
       /\ scopeGetState(St, j, lastCall.key) \in Vals
       /\ scopeGetState(St, j, lastCall.key)
            # scopeGetState(St, lastCall.ref, lastCall.key)
  /\ getState(St, lastCall.key) \in Vals
  /\ getState(St, lastCall.key) # scopeGetState(St, lastCall.ref, lastCall.key)

\* What structural comparison sees of a node: kind, tag, text, attributes and
\* children, without identity and without the value property.
RECURSIVE Shape(_)
Shape(n) ==
  [n EXCEPT !.id = <<>>, !.typed = Untyped,
            !.kids = [j \in 1..Len(n.kids) |-> Shape(n.kids[j])]]

\* C22: after reconcileChildren the live child list has the length of the
\* desired one and at every position the same kind, tag, text, attributes with
\* their values and, recursively, children.
C22_ReconcileConverges ==
  diffPc = "patched" =>
     /\ Len(oldEl) = Len(newEl)
     /\ \A i \in 1..Len(oldEl) : Shape(oldEl[i]) = newEl[i]

\* reconcileChildren kept the first live node, an element, changed its
\* children, and appended or replaced the second.
C22_Witness ==
  /\ diffPc = "patched"
  /\ Len(oldEl) = 2
  /\ oldEl[1].id = <<1>> /\ oldEl[1].kind = "element"
  /\ \E j \in 1..Len(oldEl[1].kids) : oldEl[1].kids[j].id = <<0, 1, j>>
  /\ oldEl[2].id = <<0, 2>>

\* The live element oldNode was patched against newNode and is now resNode:
\* where both carry the same value attribute the value property is as it
\* was, on this element and on the elements patched below it.
RECURSIVE ValueKept(_, _, _)
ValueKept(oldNode, newNode, resNode) ==
  (oldNode.kind = "element" /\ newNode.kind = "element"
     /\ oldNode.tag = newNode.tag) =>
     /\ (/\ HasValue(oldNode)
         /\ "value" \in DOMAIN oldNode.attrs \cap DOMAIN newNode.attrs
         /\ oldNode.attrs["value"] = newNode.attrs["value"]) =>
           /\ resNode.typed = oldNode.typed
           /\ ValueProp(resNode) = ValueProp(oldNode)
     /\ \A j \in 1..Len(oldNode.kids) :
          j <= Len(newNode.kids) =>
             ValueKept(oldNode.kids[j], newNode.kids[j], resNode.kids[j])

\* C23: patching a live element against a desired element with the same
\* value attribute leaves the live value property as it was, whatever was
\* typed into it and whatever else the patch changes.
C23_EqualValueAttributeKeepsProperty ==
  [][(diffPc = "idle" /\ diffPc' = "patched") =>
       \A i \in 1..Len(oldEl) :
          i <= Len(newEl) => ValueKept(oldEl[i], newEl[i], oldEl'[i])]_vars

\* A live input whose typed value differs from its value attribute was
\* patched against an input with that same attribute, and still holds the
\* typed value.
C23_Witness ==
  /\ diffPc = "patched"
  /\ \E i \in 1..Len(oldEl) :
       /\ oldEl[i].id = <<i>>
       /\ HasValue(oldEl[i])
       /\ oldEl[i].typed \in TypedVals
       /\ "value" \in DOMAIN oldEl[i].attrs
       /\ oldEl[i].attrs["value"] # oldEl[i].typed
       /\ \E k \in 1..Len(oldEl) : oldEl[k].id = <<0, k>>

\* The desired node asks for a node of the kind, and for an element of the
\* tag, of the live node.
SameKindAndTag(oldNode, newNode) ==
  /\ oldNode.kind = newNode.kind
  /\ oldNode.kind = "element" => oldNode.tag = newNode.tag

\* The identities of the nodes of a child list.
Ids(ch) == {ch[i].id : i \in 1..Len(ch)}

\* resCh is what reconcileChildren made of the live list oldCh for the
\* desired list newCh: a live node is still in its place where the desired
\* node has its kind and tag, and so on below it; elsewhere a fresh node has
\* taken its place, or it is gone where the desired list has ended; nodes
\* past the end of the live list are fresh.
RECURSIVE IdentityKept(_, _, _)
IdentityKept(oldCh, newCh, resCh) ==
  /\ Len(resCh) = Len(newCh)
  /\ \A i \in 1..Len(oldCh) :
       IF i > Len(newCh)
       THEN oldCh[i].id \notin Ids(resCh)
       ELSE IF SameKindAndTag(oldCh[i], newCh[i])
       THEN /\ resCh[i].id = oldCh[i].id
            /\ IdentityKept(oldCh[i].kids, newCh[i].kids, resCh[i].kids)
       ELSE /\ oldCh[i].id \notin Ids(resCh)
            /\ resCh[i].id[1] = 0
  /\ \A i \in 1..Len(newCh) : i > Len(oldCh) => resCh[i].id[1] = 0

\* C30: reconcileChildren leaves a live node in place, with its identity,
\* wherever the desired node at its position has the same kind and, for
\* elements, the same tag; it puts a fresh copy in its place only where kind or
\* tag differ, and removes it only where its position is past the end of the
\* desired list.
C30_IdentityKeptWhereKindAndTagMatch ==
  [][(diffPc = "idle" /\ diffPc' = "patched") =>
       IdentityKept(oldEl, newEl, oldEl')]_vars

\* reconcileChildren kept a live element and its first child in place and
\* put a fresh node second.
C30_Witness ==
  /\ diffPc = "patched"
  /\ Len(oldEl) = 2
  /\ oldEl[1].id = <<1>>
  /\ Len(oldEl[1].kids) >= 1
  /\ oldEl[1].kids[1].id = <<1, 1>>
  /\ oldEl[2].id = <<0, 2>>

\* C24: a step of one container, whatever it calls, leaves the other
\* container's global state, scope registry, handler registry, listener
\* records, timer sets, pending-render flag, mounted status and render function
\* as they were.
C24_ContainersDoNotInterfere ==
  [][/\ other'.lastOp = "none" => ClosureOf(Second)' = ClosureOf(Second)
     /\ other'.lastOp # "none" => ClosureOf(St)' = ClosureOf(St)]_vars

\* The first container was destroyed, mounted and with a timer running,
\* while the second is mounted and holds state, a handler, listeners and an
\* interval of its own that the host still runs.
C24_Witness ==
  /\ lastOp = "destroy" /\ other.lastOp = "none"
  /\ teardown.mounted /\ teardown.timers # EmptyObj
  /\ other.mounted
  /\ other.globalState # EmptyObj
  /\ other.handlers # EmptyObj
  /\ other.activeListeners # <<>>
  /\ other.intervals # {}
  /\ other.intervals \subseteq DOMAIN hostTimers

\* C25: once the counter component is set up, the stored count equals the
\* number of increment dispatches less the number of decrement dispatches
\* since the last count_reset dispatch (or since the start), also while a
\* scheduled render has not run yet.
C25_CountIsIncrementsLessDecrements ==
  <<"increment">> \in DOMAIN handlers => getState(St, "count") = tally

\* A decrement was dispatched in the same block as the dispatch before it,
\* the render is still queued, and the count is 2 after three increments and
\* that decrement.
C25_Witness ==
  /\ lastCall.op = "dispatch" /\ lastCall.name = <<"decrement">>
  /\ calls >= 2 /\ rerenderScheduled
  /\ tally = 2 /\ getState(St, "count") = 2

\* C26: in the todo scope, which starts with no items and nextId = 1, an add
\* of a text that is non-empty after trimming appends the item {id: nextId,
\* text, completed: false} and increases nextId by one; an add of an empty or
\* whitespace-only text changes no scope state; a toggle of id i flips the
\* completed flag of the item with that id and nothing else; a delete of id i
\* removes the item with that id and nothing else; and after every such
\* dispatch the item ids are pairwise distinct and smaller than nextId.
C26_TodoOperations ==
  [][lastCall'.op = "dispatch" =>
       LET old == TodoItems(St)
           new == TodoItems(St)'
           text == trim(scopeGetState(St, InputScope(St), "text"))
           isAdd == \/ lastCall'.name = <<"add">>
                    \/ lastCall'.name = <<"keydown">> /\ lastCall'.hit
           id == lastCall'.ref
           Others(item) == item.id # id
       IN /\ (isAdd /\ text # <<>>) =>
               /\ new = Append(old, [id |-> TodoNextId(St), text |-> text,
                                     completed |-> FALSE])
               /\ TodoNextId(St)' = TodoNextId(St) + 1
          /\ (isAdd /\ text = <<>>) => scopeObjs' = scopeObjs
          /\ lastCall'.name = <<"toggle">> =>
               /\ Len(new) = Len(old)
               /\ TodoNextId(St)' = TodoNextId(St)
               /\ \A k \in 1..Len(old) :
                    /\ new[k].id = old[k].id
                    /\ new[k].text = old[k].text
                    /\ new[k].completed = (old[k].completed # (old[k].id = id))
          /\ lastCall'.name = <<"delete">> =>
               /\ new = SelectSeq(old, Others)
               /\ TodoNextId(St)' = TodoNextId(St)
          /\ \A j, k \in 1..Len(new) : j # k => new[j].id # new[k].id
          /\ \A k \in 1..Len(new) : new[k].id < TodoNextId(St)'
    ]_vars

\* Two texts were added, the second one was toggled and then the first one
\* was deleted: the item left has id 2, its trimmed text and completed set.
C26_Witness ==
  /\ lastCall.op = "dispatch" /\ lastCall.name = <<"delete">>
  /\ lastCall.ref = 1
  /\ TodoNextId(St) = 3
  /\ TodoItems(St) =
       <<[id |-> 2, text |-> <<"a", " ", "b">>, completed |-> TRUE]>>

\* Every step a of the recorded cycle comes before every step b of it.
Before(tr, a, b) ==
  \A i, j \in 1..Len(tr) : (tr[i] = a /\ tr[j] = b) => i < j

\* Step b is taken only after step a has been taken.
Needs(tr, b, a) ==
  \A j \in 1..Len(tr) : tr[j] = b => \E i \in 1..(j - 1) : tr[i] = a

CycleOrdered(tr) ==
  /\ Before(tr, "detach", "render") /\ Needs(tr, "render", "detach")
  /\ Before(tr, "render", "replace") /\ Needs(tr, "replace", "render")
  /\ Before(tr, "replace", "attach") /\ Needs(tr, "attach", "replace")

\* C27 as stated: within every render cycle the recorded listeners are
\* detached before the render function is called, the render function is
\* called before the content is replaced, the content is replaced before any
\* listener is attached, and every listener of the cycle is attached before
\* the next state mutation that can schedule another render.
C27_AttachBeforeAnyMutation ==
  Invoked(lastCycle) =>
    /\ CycleOrdered(trace)
    /\ Before(trace, "attach", "mutate")

\* C27, amended: the order detach, render, replace, attach holds in every
\* cycle, a cycle whose render function throws leaves no listener attached,
\* and the only state mutation that comes before the listeners of a cycle
\* are attached is one the render function of that cycle makes itself.
C27_RenderCycleOrder ==
  Invoked(lastCycle) =>
    /\ CycleOrdered(trace)
    /\ lastCycle = "threwRender" => attached = {} /\ activeListeners = <<>>
    /\ \A j \in 1..Len(trace) :
         trace[j] = "mutate" =>
           /\ renderFn = "writer"
           /\ j > 1 /\ trace[j - 1] = "render"
           /\ j < Len(trace) /\ trace[j + 1] = "replace"

\* A scheduled render cycle of the global component has run to its end and
\* attached three listeners.
C27_Witness ==
  /\ lastOp = "micro" /\ lastCycle = "done" /\ renderFn = "global"
  /\ trace = <<"detach", "render", "replace", "attach", "attach", "attach">>

\* The ids of the elements in a container.
ElementIds(c) == {c[i].id : i \in 1..Len(c)}

C29_DataOnRemoved ==
  RenderedWellFormed =>
    \A i \in 1..Len(container) : container[i].on.kind = "none"

\* bindEvents processed a tree that declared bindings while no handler at
\* all was registered, and attached nothing.
C29_Witness ==
  /\ RenderedWellFormed
  /\ handlers = EmptyObj
  /\ attached = {}
  /\ \E i \in 1..Len(desired) : desired[i].on.kind = "map"

\* The live element oldNode was patched against newNode and is now resNode.
\* Where both are elements of one tag, the live one has a value property and
\* the desired one declares a value attribute v: the value property is v
\* afterwards if it differed from v before (always = TRUE), or if the live
\* value attribute differed from v before (always = FALSE); on this element
\* and on the elements patched below it.
RECURSIVE ValueSynced(_, _, _, _)
ValueSynced(oldNode, newNode, resNode, always) ==
  (oldNode.kind = "element" /\ newNode.kind = "element"
     /\ oldNode.tag = newNode.tag) =>
     /\ (HasValue(oldNode) /\ "value" \in DOMAIN newNode.attrs) =>
           LET v == newNode.attrs["value"]
               attrDiffers == \/ "value" \notin DOMAIN oldNode.attrs
                              \/ oldNode.attrs["value"] # v
           IN IF always
              THEN ValueProp(oldNode) # v => ValueProp(resNode) = v
              ELSE attrDiffers => ValueProp(resNode) = v
     /\ \A j \in 1..Len(oldNode.kids) :
          j <= Len(newNode.kids) =>
             ValueSynced(oldNode.kids[j], newNode.kids[j], resNode.kids[j],
                         always)

\* C31 as stated: after the synchronization against a desired element that
\* declares the value attribute v, the live value property is v whenever it
\* differed from v before, whether or not the live value attribute was v.
C31_PropertyAlwaysSynced ==
  [][(diffPc = "idle" /\ diffPc' = "patched") =>
       \A i \in 1..Len(oldEl) :
          i <= Len(newEl) =>
             ValueSynced(oldEl[i], newEl[i], oldEl'[i], TRUE)]_vars

\* C31, amended: after the synchronization against a desired element that
\* declares the value attribute v, the live value property is v whenever the
\* live value attribute differed from v before (or was absent), whatever the
\* property was.
C31_PropertySyncedWithChangedAttribute ==
  [][(diffPc = "idle" /\ diffPc' = "patched") =>
       \A i \in 1..Len(oldEl) :
          i <= Len(newEl) =>
             ValueSynced(oldEl[i], newEl[i], oldEl'[i], FALSE)]_vars

\* A live input that was typed into was kept and patched against an input
\* declaring another value attribute than it had: it now holds the declared
\* value in its property and in its attribute, together with the class
\* attribute only the desired input declares.
C31_Witness ==
  /\ diffPc = "patched"
  /\ \E i \in 1..Len(oldEl) :
       /\ oldEl[i].id = <<i>>
       /\ HasValue(oldEl[i])
       /\ oldEl[i].typed = "v"
       /\ ValueProp(oldEl[i]) = "v"
       /\ "class" \in DOMAIN oldEl[i].attrs
       /\ oldEl[i].attrs = newEl[i].attrs

\* C32: a render cycle that starts with the focus on an element with a
\* data-id, and whose new content has an element with that data-id, ends with
\* the focus on such an element, and with its cursor at the offset the focused
\* element had when that was a number and the element is a text input; a cycle
\* that starts with the focus on an element without data-id, or whose new
\* content has no element with that data-id, focuses nothing: the focus is
\* where the replacement of the content left it.
C32_FocusRestored ==
  [][(/\ lastOp' \in {"mount", "micro"}
      /\ running' = running
      /\ lastCycle' \in {"done", "threwFocus"}) =>
       LET hits == {i \in 1..Len(container') :
                      container'[i].dataId = focus.dataId}
       IN IF focus.dataId # "" /\ hits # {}
          THEN /\ \E i \in hits :
                    /\ focus'.el = container'[i].id
                    /\ (focus.cursor \in Nat /\ container'[i].sel = "text") =>
                          focus'.cursor = focus.cursor
          ELSE /\ lastCycle' = "done"
               /\ focus' = IF focus.el \in {container[i].id :
                                              i \in 1..Len(container)}
                           THEN NoFocus ELSE focus]_vars

\* A scheduled render cycle moved the text input with data-id d1 from the
\* first to the second place: the new input has the focus and the cursor at
\* offset 1, where the user had put it in the old one.
C32_Witness ==
  /\ lastOp = "micro" /\ lastCycle = "done"
  /\ Len(container) = 3
  /\ container[1].dataId = ""
  /\ focus.el = container[2].id
  /\ focus.dataId = "d1"
  /\ focus.cursor = 1

C34_StaleRenderSkipped ==
  [][(destroyed /\ ~running /\ lastOp' = "micro") =>
       /\ lastCycle' = "skipped"
       /\ container' = <<>>
       /\ attached' = {}
       /\ ~rerenderScheduled']_vars

\* C35: a scheduled render cycle whose render function throws leaves the
\* pending flag lowered and nothing queued by it, and every setState call made
\* while mounted, after such a cycle as at any other time, leaves exactly one
\* render pending.
C35_ThrowDoesNotWedgeScheduler ==
  [][/\ (running' = running /\ lastOp' = "micro"
         /\ lastCycle' = "threwRender") =>
          /\ ~rerenderScheduled'
          /\ microQueue' = Tail(microQueue)
     /\ (lastOp' = "call" /\ mounted /\ calls' = calls + 1) =>
          /\ rerenderScheduled'
          /\ Len(microQueue') = 1]_vars

\* The render function threw in a scheduled cycle: the container is still
\* mounted, the flag is down and nothing is queued.
C35_Witness ==
  /\ lastOp = "micro" /\ lastCycle = "threwRender"
  /\ ~running
  /\ mounted /\ renderFn = "scoped"
  /\ ~rerenderScheduled
  /\ microQueue = <<>>

\* C36: a render cycle whose render function throws leaves the container
\* content as it was before the cycle, no listener attached and the listener
\* record list empty; and the step after such a cycle, unless it is a render
\* cycle that completes, leaves no listener attached and the list empty.
C36_ThrownRenderLeavesNoListeners ==
  [][/\ (running' = running /\ lastOp' \in {"mount", "micro"}
         /\ lastCycle' = "threwRender") =>
          /\ container' = container
          /\ attached' = {}
          /\ activeListeners' = <<>>
     /\ (lastCycle = "threwRender"
         /\ ~(running' = running /\ CycleCompleted')) =>
          /\ attached' = {}
          /\ activeListeners' = <<>>]_vars

\* C37: on and off, called on the container or on a scope, change the handler
\* registry at the one key they name and nothing else: no render is queued,
\* the pending flag, the container content, the state and the scopes are as
\* they were, and the attached and the recorded listeners, each with the
\* callback it was bound to, are as they were.
C37_OnOffChangeRegistryOnly ==
  [][lastCall'.op \in {"on", "off"} =>
       /\ \A key \in (DOMAIN handlers \cup DOMAIN handlers') \ {lastCall'.name} :
            /\ key \in DOMAIN handlers /\ key \in DOMAIN handlers'
            /\ handlers'[key] = handlers[key]
       /\ (lastCall'.op = "on") = (lastCall'.name \in DOMAIN handlers')
       /\ attached' = attached
       /\ activeListeners' = activeListeners
       /\ container' = container
       /\ microQueue' = microQueue
       /\ rerenderScheduled' = rerenderScheduled
       /\ globalState' = globalState
       /\ scopes' = scopes
       /\ scopeObjs' = scopeObjs
       /\ mounted' = mounted /\ renderFn' = renderFn]_vars

\* off("g") was called while mounted: the name is gone from the registry and
\* the rendered button still has the listener bound at the last render.
C37_Witness ==
  /\ lastCall.op = "off" /\ lastCall.name = <<"g">> /\ lastCall.hit
  /\ mounted
  /\ <<"g">> \notin DOMAIN handlers
  /\ \E l \in attached : l.event = "click" /\ l.handler = "F1"
  /\ ~rerenderScheduled

\* C38: destroy() of a scope leaves in the registry, with its callback, every
\* handler that was registered through the container or through another
\* scope, whatever the scope names and handler names are, and leaves the
\* private state and the registry entry of every other scope as they were.
C38_ScopeDestroyKeepsOthers ==
  [][lastCall'.op = "scope.destroy" =>
       LET i == lastCall'.ref
       IN /\ \A key \in DOMAIN handlers :
               owner[key] # i =>
                  /\ key \in DOMAIN handlers'
                  /\ handlers'[key] = handlers[key]
          /\ Len(scopeObjs') = Len(scopeObjs)
          /\ \A j \in ScopeRefs : j # i => scopeObjs'[j] = scopeObjs[j]
          /\ \A n \in DOMAIN scopes :
               scopes[n] # i => (n \in DOMAIN scopes' /\ scopes'[n] = scopes[n])
    ]_vars

\* C39: createScope(n) for a name that was used by a scope since destroyed
\* makes a scope with empty private state and no handler under the prefix of
\* n; and a call of setState, deleteState, on, off or destroy on a scope object
\* that is not the one registered under its name leaves the registered scope's
\* private state, its registry entry and the handlers under the prefix as they
\* were.
C39_DestroyedScopeCannotReachNewOne ==
  [][/\ (/\ lastCall'.op = "createScope"
         /\ lastCall'.name \notin DOMAIN scopes
         /\ \E i \in ScopeRefs : scopeObjs[i].name = lastCall'.name) =>
          /\ scopeObjs'[lastCall'.ref].localState = EmptyObj
          /\ HandlersOf(handlers', lastCall'.name) = EmptyObj
     /\ (/\ lastCall'.op \in {"scope.setState", "scope.deleteState",
                              "scope.destroy", "on", "off"}
         /\ lastCall'.ref \in ScopeRefs
         /\ scopeObjs[lastCall'.ref].name \in DOMAIN scopes
         /\ scopes[scopeObjs[lastCall'.ref].name] # lastCall'.ref) =>
          LET n == scopeObjs[lastCall'.ref].name
          IN /\ scopeObjs'[scopes[n]] = scopeObjs[scopes[n]]
             /\ n \in DOMAIN scopes'
             /\ scopes'[n] = scopes[n]
             /\ HandlersOf(handlers', n) = HandlersOf(handlers, n)]_vars

\* The intervals of the timer component the host still runs.
TimerActive(ht) == {id \in DOMAIN ht : ht[id] = "interval"}

\* C40: whatever start, stop and reset handlers are dispatched, at most one
\* interval of the timer component is active, the running flag of its scope is
\* true exactly when one is, a start dispatched while the flag is true creates
\* no interval, and a reset leaves seconds at 0.
C40_OneIntervalWhileRunning ==
  [][/\ <<"timer">> \in DOMAIN scopes' =>
          /\ Cardinality(TimerActive(hostTimers')) <= 1
          /\ TimerActive(hostTimers') = intervals'
          /\ TimerRunning(St)' <=> (TimerActive(hostTimers') # {})
     /\ (/\ lastCall'.op = "dispatch"
         /\ lastCall'.name = Qualified(<<"timer">>, <<"start">>)
         /\ TimerRunning(St)) =>
          /\ hostTimers' = hostTimers
          /\ nextTimerId' = nextTimerId
          /\ intervalId' = intervalId
     /\ (/\ lastCall'.op = "dispatch"
         /\ lastCall'.name = Qualified(<<"timer">>, <<"reset">>)) =>
          /\ TimerSeconds(St)' = 0
          /\ TimerActive(hostTimers') = {}]_vars

\* A start was dispatched while the timer ran, after a tick.
C40_Witness ==
  /\ lastCall.op = "dispatch"
  /\ lastCall.name = Qualified(<<"timer">>, <<"start">>)
  /\ <<"timer">> \in DOMAIN scopes
  /\ TimerRunning(St)
  /\ TimerSeconds(St) > 0
  /\ intervalId \in TimerActive(hostTimers)
  /\ ~rerenderScheduled

====
